---------------------------- MODULE Spec2Model ----------------------------
(***************************************************************************)
(* Bank-statement import of fintrack-genz-vision.                          *)
(*                                                                         *)
(* The PDF path (src/lib/pdfParser.ts: parsePDFBankStatement,              *)
(* parseTransactionsFromText and its three strategies), the CSV path       *)
(* (FinancialDataContext: parseCSVTransaction, parseCSVFile) and the       *)
(* orchestrator importStatement with its reducer-held store.               *)
(*                                                                         *)
(* Texts are strings; the regular expressions of BANK_PATTERNS are         *)
(* matched character by character, the way the JavaScript engine matches   *)
(* them (leftmost match, greedy quantifiers, global flag).  Amounts are    *)
(* kept in hundredths, so parseFloat("1,250.50") after comma removal is    *)
(* 125050.                                                                 *)
(***************************************************************************)
EXTENDS Integers, Sequences, FiniteSets, TLC

(***************************************************************************)
(* Bounds of the model.                                                    *)
(***************************************************************************)
\* The number of lines of an extracted PDF text.
MaxLines == 3

\* The number of data rows of a CSV file.
MaxRows == 2

(***************************************************************************)
(* Characters and the String.prototype methods the parser uses.            *)
(***************************************************************************)
Ch(s, i) == SubSeq(s, i, i)

DigitChars == {"0", "1", "2", "3", "4", "5", "6", "7", "8", "9"}

UpperChars == {"A", "B", "C", "D", "E", "F", "G", "H", "I", "J", "K", "L", "M",
               "N", "O", "P", "Q", "R", "S", "T", "U", "V", "W", "X", "Y", "Z"}

LowerChars == {"a", "b", "c", "d", "e", "f", "g", "h", "i", "j", "k", "l", "m",
               "n", "o", "p", "q", "r", "s", "t", "u", "v", "w", "x", "y", "z"}

\* \s of the regular expressions.
SpaceChars == {" ", "\t", "\n"}

\* \w of the regular expressions.
WordChars == DigitChars \cup UpperChars \cup LowerChars \cup {"_"}

LowerOf ==
  [c \in UpperChars |->
     CASE c = "A" -> "a" [] c = "B" -> "b" [] c = "C" -> "c" [] c = "D" -> "d"
       [] c = "E" -> "e" [] c = "F" -> "f" [] c = "G" -> "g" [] c = "H" -> "h"
       [] c = "I" -> "i" [] c = "J" -> "j" [] c = "K" -> "k" [] c = "L" -> "l"
       [] c = "M" -> "m" [] c = "N" -> "n" [] c = "O" -> "o" [] c = "P" -> "p"
       [] c = "Q" -> "q" [] c = "R" -> "r" [] c = "S" -> "s" [] c = "T" -> "t"
       [] c = "U" -> "u" [] c = "V" -> "v" [] c = "W" -> "w" [] c = "X" -> "x"
       [] c = "Y" -> "y" [] c = "Z" -> "z"]

DigitVal ==
  [c \in DigitChars |->
     CASE c = "0" -> 0 [] c = "1" -> 1 [] c = "2" -> 2 [] c = "3" -> 3
       [] c = "4" -> 4 [] c = "5" -> 5 [] c = "6" -> 6 [] c = "7" -> 7
       [] c = "8" -> 8 [] c = "9" -> 9]

IsDigitAt(s, i) == i >= 1 /\ i <= Len(s) /\ Ch(s, i) \in DigitChars

IsCharAt(s, i, c) == i >= 1 /\ i <= Len(s) /\ Ch(s, i) = c

\* The string methods that rewrite a string character by character are
\* defined over a range lo..hi of it and halve the range, which keeps the
\* depth of the evaluation logarithmic in the length.
RECURSIVE LowerRange(_, _, _)
LowerRange(s, lo, hi) ==
  IF lo > hi THEN ""
  ELSE IF lo = hi
    THEN (IF Ch(s, lo) \in UpperChars THEN LowerOf[Ch(s, lo)] ELSE Ch(s, lo))
  ELSE LET mid == (lo + hi) \div 2
       IN  LowerRange(s, lo, mid) \o LowerRange(s, mid + 1, hi)

ToLowerCase(s) == LowerRange(s, 1, Len(s))

\* charAt(0).toUpperCase() + slice(1), on the lower-case keys of the tables.
Capitalize(s) ==
  IF Len(s) = 0 THEN ""
  ELSE LET c == Ch(s, 1)
           up == IF c \in LowerChars
                   THEN CHOOSE u \in UpperChars : LowerOf[u] = c
                   ELSE c
       IN  up \o SubSeq(s, 2, Len(s))

\* The least of a set of indices, 0 when the set is empty: the index a
\* left-to-right search stops at.
Least(hits) == IF hits = {} THEN 0 ELSE CHOOSE i \in hits : \A j \in hits : i <= j

\* The least index >= from at which sub occurs in s, 0 when there is none.
IndexOfFrom(s, sub, from) ==
  Least({i \in from .. (Len(s) - Len(sub) + 1) :
           SubSeq(s, i, i + Len(sub) - 1) = sub})

Includes(s, sub) == IndexOfFrom(s, sub, 1) # 0

RECURSIVE TrimStart(_)
TrimStart(s) ==
  IF Len(s) > 0 /\ Ch(s, 1) \in SpaceChars
    THEN TrimStart(SubSeq(s, 2, Len(s)))
    ELSE s

RECURSIVE TrimEnd(_)
TrimEnd(s) ==
  IF Len(s) > 0 /\ Ch(s, Len(s)) \in SpaceChars
    THEN TrimEnd(SubSeq(s, 1, Len(s) - 1))
    ELSE s

Trim(s) == TrimEnd(TrimStart(s))

\* The least index of s that holds a character of chars, 0 if none does.
FirstOf(s, chars) == Least({i \in 1 .. Len(s) : Ch(s, i) \in chars})

\* split(sep) for a separator that is one character out of seps.
RECURSIVE Split(_, _)
Split(s, seps) ==
  LET i == FirstOf(s, seps)
  IN  IF i = 0 THEN <<s>>
      ELSE <<SubSeq(s, 1, i - 1)>> \o Split(SubSeq(s, i + 1, Len(s)), seps)

\* split(/\s+/): a run of white space is one separator.
RECURSIVE SplitWhitespace(_)
SplitWhitespace(s) ==
  LET i == FirstOf(s, SpaceChars)
  IN  IF i = 0 THEN <<s>>
      ELSE <<SubSeq(s, 1, i - 1)>>
             \o SplitWhitespace(TrimStart(SubSeq(s, i, Len(s))))

RECURSIVE Join(_, _)
Join(parts, sep) ==
  IF Len(parts) = 0 THEN ""
  ELSE IF Len(parts) = 1 THEN parts[1]
  ELSE parts[1] \o sep \o Join(Tail(parts), sep)

\* slice(from) of an array, from counted from 0 as in the source.
SliceFrom(parts, from) == SubSeq(parts, from + 1, Len(parts))

\* slice(from, to) of an array, indices counted from 0 as in the source.
Slice(parts, from, to) == SubSeq(parts, from + 1, to)

\* padStart(2, '0').
PadStart2(s) == IF Len(s) = 0 THEN "00" ELSE IF Len(s) = 1 THEN "0" \o s ELSE s

\* filter(line => line.trim().length > 0), keeping the order.
RECURSIVE NonBlank(_)
NonBlank(lines) ==
  IF Len(lines) = 0 THEN <<>>
  ELSE (IF Len(Trim(lines[1])) > 0 THEN <<lines[1]>> ELSE <<>>)
         \o NonBlank(Tail(lines))

(***************************************************************************)
(* BANK_PATTERNS: the regular expressions, matched as the engine does.     *)
(* A pattern is named by its source text; XxxEnd(s, p) is the index of the *)
(* last character of the match that starts at index p, 0 when the pattern  *)
(* does not match there.                                                   *)
(***************************************************************************)
BANK_PATTERNS ==
  [hdfc    |-> [datePattern |-> "dd/dd/dddd",  amountPattern |-> "amount"],
   icici   |-> [datePattern |-> "dd-dd-dddd",  amountPattern |-> "amount"],
   sbi     |-> [datePattern |-> "dd-dd-dddd",  amountPattern |-> "amount"],
   axis    |-> [datePattern |-> "dd/dd/dddd",  amountPattern |-> "amount"],
   generic |-> [datePattern |-> "d?d[/-]d?d[/-]dddd", amountPattern |-> "amount"]]

BankTypes == {"hdfc", "icici", "sbi", "axis", "generic"}

\* (?:,\d{3})* from the character after index e: greedy, group by group.
RECURSIVE ThousandsEnd(_, _)
ThousandsEnd(s, e) ==
  IF IsCharAt(s, e + 1, ",") /\ IsDigitAt(s, e + 2) /\ IsDigitAt(s, e + 3)
       /\ IsDigitAt(s, e + 4)
    THEN ThousandsEnd(s, e + 4)
    ELSE e

\* \d{1,3} from the digit at index d: greedy, up to two more digits.
LeadingDigitsEnd(s, d) ==
  IF IsDigitAt(s, d + 1)
    THEN (IF IsDigitAt(s, d + 2) THEN d + 2 ELSE d + 1)
    ELSE d

\* (?:\.\d{2})? from the character after index e.
DecimalsEnd(s, e) ==
  IF IsCharAt(s, e + 1, ".") /\ IsDigitAt(s, e + 2) /\ IsDigitAt(s, e + 3)
    THEN e + 3 ELSE e

\* /([+-]?\d{1,3}(?:,\d{3})*(?:\.\d{2})?)/
AmountEnd(s, p) ==
  LET d == IF Ch(s, p) \in {"+", "-"} THEN p + 1 ELSE p
  IN  IF IsDigitAt(s, d)
        THEN DecimalsEnd(s, ThousandsEnd(s, LeadingDigitsEnd(s, d)))
        ELSE 0

\* \d{2}<sep>\d{2}<sep>\d{4} with the separator out of seps.
FixedDateEnd(s, p, seps) ==
  IF /\ IsDigitAt(s, p) /\ IsDigitAt(s, p + 1)
     /\ p + 2 <= Len(s) /\ Ch(s, p + 2) \in seps
     /\ IsDigitAt(s, p + 3) /\ IsDigitAt(s, p + 4)
     /\ p + 5 <= Len(s) /\ Ch(s, p + 5) \in seps
     /\ IsDigitAt(s, p + 6) /\ IsDigitAt(s, p + 7)
     /\ IsDigitAt(s, p + 8) /\ IsDigitAt(s, p + 9)
    THEN p + 9 ELSE 0

\* /(\d{1,2}[/-]\d{1,2}[/-]\d{4})/: a and b are the lengths of the day and
\* the month; the greedy two digits are tried first.
GenericDateEnd(s, p) ==
  LET fits(a, b) ==
        /\ \A i \in 0 .. (a - 1) : IsDigitAt(s, p + i)
        /\ p + a <= Len(s) /\ Ch(s, p + a) \in {"/", "-"}
        /\ \A i \in 1 .. b : IsDigitAt(s, p + a + i)
        /\ p + a + b + 1 <= Len(s) /\ Ch(s, p + a + b + 1) \in {"/", "-"}
        /\ \A i \in 2 .. 5 : IsDigitAt(s, p + a + b + i)
      end(a, b) == p + a + b + 5
  IN  IF ~IsDigitAt(s, p) THEN 0
      ELSE IF fits(2, 2) THEN end(2, 2)
      ELSE IF fits(2, 1) THEN end(2, 1)
      ELSE IF fits(1, 2) THEN end(1, 2)
      ELSE IF fits(1, 1) THEN end(1, 1)
      ELSE 0

MatchEnd(pattern, s, p) ==
  CASE pattern = "amount" -> AmountEnd(s, p)
    [] pattern = "dd/dd/dddd" -> FixedDateEnd(s, p, {"/"})
    [] pattern = "dd-dd-dddd" -> FixedDateEnd(s, p, {"-"})
    [] pattern = "d?d[/-]d?d[/-]dddd" -> GenericDateEnd(s, p)

\* String.prototype.match with a global pattern: every match, left to right,
\* the search resuming after the end of the previous match (lastIndex is set
\* to 0 on entry and is 0 again on exit).  <<>> stands for null.
\* The least index >= p at which the pattern matches, 0 if there is none.
NextMatch(pattern, s, p) ==
  Least({q \in p .. Len(s) : MatchEnd(pattern, s, q) # 0})

\* The indices of s at which the pattern matches.
MatchStarts(pattern, s) == {q \in 1 .. Len(s) : MatchEnd(pattern, s, q) # 0}

\* The matches from index p on, starts being the indices at which the
\* pattern matches; MatchAt is given the start q of the next match (0 when
\* there is none), MatchTake its end e as well.
RECURSIVE MatchFrom(_, _, _, _)
MatchTake(pattern, s, starts, q, e) ==
  <<SubSeq(s, q, e)>> \o MatchFrom(pattern, s, starts, e + 1)

MatchAt(pattern, s, starts, q) ==
  IF q = 0 THEN <<>>
  ELSE MatchTake(pattern, s, starts, q, MatchEnd(pattern, s, q))

MatchFrom(pattern, s, starts, p) ==
  MatchAt(pattern, s, starts, Least({q \in starts : q >= p}))

Match(s, pattern) == MatchFrom(pattern, s, MatchStarts(pattern, s), 1)

\* A match or replace that leaves lastIndex where it found it.
MatchKeeps(lastIndex, name) == lastIndex

\* The patterns of a bank type are two RegExp objects with the g flag, made
\* once when the module is loaded and shared by every call: each carries a
\* lastIndex (counted from 0).  String.prototype.match and replace with such
\* a pattern set its lastIndex to 0 on entry and leave it at 0.
MatchResets(lastIndex, name) == [lastIndex EXCEPT ![name] = 0]

\* RegExp.prototype.test of a global pattern: the search starts at lastIndex;
\* found tells whether there is a match from there on, and lastIndex is what
\* the call leaves in the pattern, the end of the match or 0.  TestAt is
\* given the start q of that match, 0 when there is none.
TestAt(pattern, s, q) ==
  [found |-> q # 0,
   lastIndex |-> IF q = 0 THEN 0 ELSE MatchEnd(pattern, s, q)]

Test(pattern, s, lastIndex) ==
  IF lastIndex > Len(s) THEN [found |-> FALSE, lastIndex |-> 0]
  ELSE TestAt(pattern, s, NextMatch(pattern, s, lastIndex + 1))

\* String.prototype.replace(pattern, with) with a global pattern.
\* ReplaceAt is given the start q of the next match, 0 when there is none.
RECURSIVE ReplaceFrom(_, _, _, _, _)
ReplaceAt(pattern, s, starts, p, with, q) ==
  IF q = 0 THEN SubSeq(s, p, Len(s))
  ELSE SubSeq(s, p, q - 1) \o with
         \o ReplaceFrom(pattern, s, starts, MatchEnd(pattern, s, q) + 1, with)

ReplaceFrom(pattern, s, starts, p, with) ==
  ReplaceAt(pattern, s, starts, p, with, Least({q \in starts : q >= p}))

Replace(s, pattern, with) ==
  ReplaceFrom(pattern, s, MatchStarts(pattern, s), 1, with)

\* replace(/,/g, '')
StripCommas(s) == Join(Split(s, {","}), "")

\* replace(/[^\w\s]/g, ' ')
RECURSIVE BlankNonWordRange(_, _, _)
BlankNonWordRange(s, lo, hi) ==
  IF lo > hi THEN ""
  ELSE IF lo = hi
    THEN (IF Ch(s, lo) \in WordChars \cup SpaceChars THEN Ch(s, lo) ELSE " ")
  ELSE LET mid == (lo + hi) \div 2
       IN  BlankNonWordRange(s, lo, mid) \o BlankNonWordRange(s, mid + 1, hi)

BlankNonWord(s) == BlankNonWordRange(s, 1, Len(s))

\* replace(/\s+/g, ' ')
\* A run of white space becomes the one blank written for its first
\* character.
RECURSIVE CollapseRange(_, _, _)
CollapseRange(s, lo, hi) ==
  IF lo > hi THEN ""
  ELSE IF lo = hi
    THEN (IF Ch(s, lo) \notin SpaceChars THEN Ch(s, lo)
          ELSE IF lo > 1 /\ Ch(s, lo - 1) \in SpaceChars THEN ""
          ELSE " ")
  ELSE LET mid == (lo + hi) \div 2
       IN  CollapseRange(s, lo, mid) \o CollapseRange(s, mid + 1, hi)

CollapseSpace(s) == CollapseRange(s, 1, Len(s))

(***************************************************************************)
(* parseFloat, in hundredths.  It reads the longest prefix that is a       *)
(* decimal literal (sign, digits, a fraction) and is NaN when there is     *)
(* none: the result is [isNaN, value], value being 0 for NaN.  The cells   *)
(* and matches of the model carry at most two decimals.                    *)
(***************************************************************************)
RECURSIVE DigitsEnd(_, _)
DigitsEnd(s, p) == IF IsDigitAt(s, p) THEN DigitsEnd(s, p + 1) ELSE p - 1

RECURSIVE DigitsValue(_, _, _)
DigitsValue(s, from, to) ==
  IF from > to THEN 0
  ELSE DigitsValue(s, from, to - 1) * 10 + DigitVal[Ch(s, to)]

\* The literal of s whose integer digits are d..ie and whose fraction, if
\* there is one, ends at fe (fe = ie when there is no ".").
FloatLiteral(s, d, ie, fe) ==
  LET f1  == IF fe >= ie + 2 THEN DigitVal[Ch(s, ie + 2)] ELSE 0
      f2  == IF fe >= ie + 3 THEN DigitVal[Ch(s, ie + 3)] ELSE 0
      mag == DigitsValue(s, d, ie) * 100 + f1 * 10 + f2
  IN  IF ie < d /\ fe < ie + 2 THEN [isNaN |-> TRUE, value |-> 0]
      ELSE [isNaN |-> FALSE,
            value |-> IF IsCharAt(s, 1, "-") THEN 0 - mag ELSE mag]

FloatDigits(s, d, ie) ==
  FloatLiteral(s, d, ie,
               IF IsCharAt(s, ie + 1, ".") THEN DigitsEnd(s, ie + 2) ELSE ie)

FloatSigned(s, d) == FloatDigits(s, d, DigitsEnd(s, d))

ParseFloat(raw) ==
  FloatSigned(TrimStart(raw),
              IF IsCharAt(TrimStart(raw), 1, "-") \/ IsCharAt(TrimStart(raw), 1, "+")
                THEN 2 ELSE 1)

\* Math.abs left out: the signed value goes into amount.
AbsLeftOut(n) == n

\* Math.abs
Abs(n) == IF n < 0 THEN 0 - n ELSE n

(***************************************************************************)
(* standardizeDate, categorizeTransaction, detectBankType.                 *)
(***************************************************************************)
\* new Date().toISOString().split('T')[0]: the day the import runs.
Today == "2026-01-15"

\* replace(/[^\d/-]/g, '')
RECURSIVE KeepDateRange(_, _, _)
KeepDateRange(s, lo, hi) ==
  IF lo > hi THEN ""
  ELSE IF lo = hi
    THEN (IF Ch(s, lo) \in DigitChars \cup {"/", "-"} THEN Ch(s, lo) ELSE "")
  ELSE LET mid == (lo + hi) \div 2
       IN  KeepDateRange(s, lo, mid) \o KeepDateRange(s, mid + 1, hi)

KeepDateChars(s) == KeepDateRange(s, 1, Len(s))

\* const [day, month, year] = parts, when there are three of them.
DateOfParts(parts) ==
  IF Len(parts) = 3
    THEN (IF Len(parts[3]) = 2 THEN "20" \o parts[3] ELSE parts[3])
           \o "-" \o PadStart2(parts[2]) \o "-" \o PadStart2(parts[1])
    ELSE Today

standardizeDate(dateStr) == DateOfParts(Split(KeepDateChars(dateStr), {"/", "-"}))

\* The if-statements of categorizeTransaction, in their order.
CategoryRules ==
  << [keywords |-> {"salary", "credit", "deposit"},        category |-> "income"],
     [keywords |-> {"interest", "dividend"},                category |-> "income"],
     [keywords |-> {"refund", "cashback"},                  category |-> "income"],
     [keywords |-> {"grocery", "supermarket", "food"},      category |-> "food"],
     [keywords |-> {"restaurant", "cafe", "dining"},        category |-> "food"],
     [keywords |-> {"swiggy", "zomato", "delivery"},        category |-> "food"],
     [keywords |-> {"fuel", "petrol", "diesel"},            category |-> "transport"],
     [keywords |-> {"uber", "ola", "taxi"},                 category |-> "transport"],
     [keywords |-> {"metro", "bus", "train"},               category |-> "transport"],
     [keywords |-> {"parking", "toll"},                     category |-> "transport"],
     [keywords |-> {"amazon", "flipkart", "myntra"},        category |-> "shopping"],
     [keywords |-> {"mall", "store", "shop"},               category |-> "shopping"],
     [keywords |-> {"clothing", "fashion"},                 category |-> "shopping"],
     [keywords |-> {"electricity", "power"},                category |-> "utilities"],
     [keywords |-> {"water", "gas"},                        category |-> "utilities"],
     [keywords |-> {"internet", "wifi", "broadband"},       category |-> "utilities"],
     [keywords |-> {"mobile", "phone", "recharge"},         category |-> "utilities"],
     [keywords |-> {"netflix", "prime", "hotstar"},         category |-> "entertainment"],
     [keywords |-> {"movie", "cinema", "theatre"},          category |-> "entertainment"],
     [keywords |-> {"game", "gaming"},                      category |-> "entertainment"],
     [keywords |-> {"atm", "cash"},                         category |-> "cash"],
     [keywords |-> {"transfer", "neft", "imps"},            category |-> "transfer"],
     [keywords |-> {"payment", "bill"},                     category |-> "payment"],
     [keywords |-> {"rent", "emi"},                         category |-> "payment"],
     [keywords |-> {"medical", "hospital", "pharmacy"},     category |-> "healthcare"],
     [keywords |-> {"doctor", "clinic"},                    category |-> "healthcare"] >>

\* The category of the first rule from index k on with a keyword in desc.
RECURSIVE FirstRule(_, _, _, _)
FirstRule(rules, desc, k, default) ==
  IF k > Len(rules) THEN default
  ELSE IF \E w \in rules[k].keywords : Includes(desc, w)
    THEN rules[k].category
    ELSE FirstRule(rules, desc, k + 1, default)

\* The if-statements tried from the last one up.
categorizeTransactionLastFirst(description) ==
  FirstRule([k \in 1 .. Len(CategoryRules) |->
               CategoryRules[Len(CategoryRules) + 1 - k]],
            ToLowerCase(description), 1, "other")

categorizeTransaction(description) ==
  FirstRule(CategoryRules, ToLowerCase(description), 1, "other")

\* The checks with icici ahead of hdfc.
BankOfLowerTextIciciFirst(lowerText) ==
  IF Includes(lowerText, "icici") THEN "icici"
  ELSE IF Includes(lowerText, "hdfc") THEN "hdfc"
  ELSE IF Includes(lowerText, "state bank") \/ Includes(lowerText, "sbi")
    THEN "sbi"
  ELSE IF Includes(lowerText, "axis") THEN "axis"
  ELSE "generic"

BankOfLowerText(lowerText) ==
  IF Includes(lowerText, "hdfc") THEN "hdfc"
  ELSE IF Includes(lowerText, "icici") THEN "icici"
  ELSE IF Includes(lowerText, "state bank") \/ Includes(lowerText, "sbi")
    THEN "sbi"
  ELSE IF Includes(lowerText, "axis") THEN "axis"
  ELSE "generic"

detectBankType(text) == BankOfLowerText(ToLowerCase(text))

(***************************************************************************)
(* The three strategies.  A transaction is the ParsedTransaction record;   *)
(* confidence is in hundredths (80 is 0.8).                                *)
(***************************************************************************)
\* The header vocabularies: /date.*description.*amount/i and the others.
headerPatterns ==
  << <<"date", "description", "amount">>,
     <<"date", "narration", "amount">>,
     <<"date", "particulars", "amount">>,
     <<"date", "details", "amount">>,
     <<"transaction", "date", "amount">> >>

\* The index after the first occurrence of word in line at or after from,
\* 0 when there is none (or from is 0 already).
AfterWord(line, word, from) ==
  IF from = 0 \/ IndexOfFrom(line, word, from) = 0 THEN 0
  ELSE IndexOfFrom(line, word, from) + Len(word)

\* /a.*b.*c/.test(line): a, then b somewhere after it, then c after that.
TestHeader(words, line) ==
  AfterWord(line, words[3], AfterWord(line, words[2], AfterWord(line, words[1], 1))) # 0

\* parts.findIndex(part => pattern.test(part)) from element i (from 1) on:
\* the index counted from 0, -1 when no element satisfies, and the lastIndex
\* the tests leave in the pattern.  FindIndexStep is given the outcome of
\* the test of element i.
RECURSIVE FindIndexTest(_, _, _, _)
FindIndexStep(parts, pattern, i, tested) ==
  IF tested.found
    THEN [index |-> i - 1, lastIndex |-> tested.lastIndex]
    ELSE FindIndexTest(parts, pattern, i + 1, tested.lastIndex)

FindIndexTest(parts, pattern, i, lastIndex) ==
  IF i > Len(parts) THEN [index |-> -1, lastIndex |-> lastIndex]
  ELSE FindIndexStep(parts, pattern, i, Test(pattern, parts[i], lastIndex))

\* The first line (from 0) that some header pattern matches, -1 if none.
HeaderByVocabulary(lines) ==
  Least({i \in 1 .. Len(lines) :
           \E line \in {ToLowerCase(lines[i])} :
              \E k \in 1 .. Len(headerPatterns) :
                 TestHeader(headerPatterns[k], line)}) - 1

\* headerLine = i - 1 for the first line i (from 0) with a date and an
\* amount; first is that line counted from 1, 0 when there is none.
LineBefore(first) == IF first = 0 THEN -1 ELSE first - 1 - 1

\* The line before the first line with a date and an amount, -1 if none
\* (line.match(pattern) is not null when a search from 0 finds a match).
HeaderByData(lines, patterns) ==
  LineBefore(Least({i \in 1 .. Len(lines) :
                      /\ Test(patterns.datePattern, lines[i], 0).found
                      /\ Test(patterns.amountPattern, lines[i], 0).found}))

\* amounts.map(a => parseFloat(a.replace(/,/g, '')))
ParseAmounts(matches) ==
  [k \in 1 .. Len(matches) |-> ParseFloat(StripCommas(matches[k])).value]

\* amounts[amounts.length - 1] || amounts[0] || 0
LastOrFirstAmount(amounts) ==
  IF amounts[Len(amounts)] # 0 THEN amounts[Len(amounts)]
  ELSE IF amounts[1] # 0 THEN amounts[1]
  ELSE 0

\* The credit/debit decision of the tabular and the regex strategy.
DirectionOf(amount, line) ==
  IF amount < 0 THEN "debit"
  ELSE IF \E word \in {"dr", "debit"} : Includes(ToLowerCase(line), word)
    THEN "debit"
  ELSE "credit"

\* parts.slice(dateIndex + 1, amountIndex).join(' ').trim() and its
\* alternatives.
TabularBetween(parts, dateIndex, amountIndex) ==
  IF dateIndex # -1 /\ amountIndex # -1 /\ amountIndex > dateIndex + 1
    THEN Trim(Join(Slice(parts, dateIndex + 1, amountIndex), " "))
  ELSE IF dateIndex # -1
    THEN Trim(Join(SliceFrom(parts, dateIndex + 1), " "))
  ELSE "Transaction"

\* if (description.length > 100) description = substring(0, 100) + '...'
Truncate(cleaned) ==
  IF Len(cleaned) > 100 THEN SubSeq(cleaned, 1, 100) \o "..." ELSE cleaned

TabularDescription(parts, patterns, dateIndex, amountIndex) ==
  Truncate(Trim(Replace(TabularBetween(parts, dateIndex, amountIndex),
                        patterns.amountPattern, "")))

\* if (description && amount !== 0) transactions.push({...}), as the
\* tabular and the regex strategy write it; count is transactions.length.
PushDescribed(count, date, description, amount, line, confidence) ==
  IF Len(description) > 0 /\ amount # 0
    THEN << [id          |-> <<"temp", count>>,
             date        |-> date,
             description |-> description,
             amount      |-> Abs(amount),
             type        |-> DirectionOf(amount, line),
             category    |-> categorizeTransaction(description),
             isReconciled |-> FALSE,
             confidence  |-> confidence] >>
    ELSE <<>>

\* The body of the row loop of parseTabularFormat for a trimmed line: what
\* it pushes (nothing or one transaction) and the lastIndex of the two
\* patterns after it.  TabularMatched is given the date and amount matches
\* of the line and the lastIndex after them, TabularFound the outcome of the
\* two findIndex calls as well; the replace of the description cleanup
\* resets the amount pattern.
TabularFound(line, parts, patterns, count, dateMatch, amountMatches, dateFound, amountFound) ==
  [pushed |->
     PushDescribed(count, standardizeDate(dateMatch[1]),
                   TabularDescription(parts, patterns,
                                      dateFound.index, amountFound.index),
                   LastOrFirstAmount(ParseAmounts(amountMatches)), line, 80),
   lastIndex |->
     MatchResets([datePattern   |-> dateFound.lastIndex,
                  amountPattern |-> amountFound.lastIndex], "amountPattern")]

TabularMatched(line, parts, patterns, count, dateMatch, amountMatches, lastIndex) ==
  IF Len(dateMatch) = 0 \/ Len(amountMatches) = 0
    THEN [pushed |-> <<>>, lastIndex |-> lastIndex]
    ELSE TabularFound(line, parts, patterns, count, dateMatch, amountMatches,
                      FindIndexTest(parts, patterns.datePattern, 1,
                                    lastIndex.datePattern),
                      FindIndexTest(parts, patterns.amountPattern, 1,
                                    lastIndex.amountPattern))

TabularLine(line, patterns, count, lastIndex) ==
  IF Len(line) = 0 \/ Len(line) < 10
    THEN [pushed |-> <<>>, lastIndex |-> lastIndex]
    ELSE TabularMatched(line, SplitWhitespace(line), patterns, count,
                        Match(line, patterns.datePattern),
                        Match(line, patterns.amountPattern),
                        MatchResets(MatchResets(lastIndex, "datePattern"),
                                    "amountPattern"))

TabularRow(rawLine, patterns, count, lastIndex) ==
  TabularLine(Trim(rawLine), patterns, count, lastIndex)

\* transactions.push of what the body of a loop pushed, onto what the loop
\* has so far.
Pushed(sofar, body) ==
  [transactions |-> sofar.transactions \o body.pushed,
   lastIndex    |-> body.lastIndex]

RECURSIVE TabularRows(_, _, _, _)
TabularRows(lines, patterns, i, sofar) ==
  IF i > Len(lines) THEN sofar
  ELSE TabularRows(lines, patterns, i + 1,
         Pushed(sofar, TabularRow(lines[i], patterns, Len(sofar.transactions),
                                  sofar.lastIndex)))

\* let headerLine = lines.findIndex(...); the data search when it is -1.
HeaderLine(lines, patterns, byVocabulary) ==
  IF byVocabulary # -1 THEN byVocabulary ELSE HeaderByData(lines, patterns)

\* const startIndex = headerLine === -1 ? 0 : headerLine + 1
StartIndex(headerLine) == IF headerLine = -1 THEN 0 ELSE headerLine + 1

\* parseTabularFormat once the header patterns have been tried; the data
\* search, when it runs over at least one line, matches both patterns.
TabularFrom(lines, patterns, lastIndex, byVocabulary) ==
  TabularRows(lines, patterns,
              StartIndex(HeaderLine(lines, patterns, byVocabulary)) + 1,
              [transactions |-> <<>>,
               lastIndex |->
                 IF byVocabulary = -1 /\ Len(lines) > 0
                   THEN MatchResets(MatchResets(lastIndex, "datePattern"),
                                    "amountPattern")
                   ELSE lastIndex])

parseTabularFormat(lines, patterns, lastIndex) ==
  TabularFrom(lines, patterns, lastIndex, HeaderByVocabulary(lines))

\* The push of parseLineByLineFormat.
PushWindow(count, date, amount, stripped) ==
  << [id          |-> <<"temp", count>>,
      date        |-> date,
      description |-> IF Len(stripped) > 0 THEN stripped ELSE "Transaction",
      amount      |-> Abs(amount),
      type        |-> IF amount < 0 THEN "debit" ELSE "credit",
      category    |-> "other",
      isReconciled |-> FALSE,
      confidence  |-> 70] >>

\* line.replace(datePattern, '').replace(amountPattern, '').trim()
StripMatches(line, patterns) ==
  Trim(Replace(Replace(line, patterns.datePattern, ""), patterns.amountPattern, ""))

WindowMatched(currentLine, patterns, count, dateMatch, amountMatch) ==
  IF Len(dateMatch) = 0 \/ Len(amountMatch) = 0 THEN <<>>
  ELSE PushWindow(count, standardizeDate(dateMatch[1]),
                  ParseFloat(StripCommas(amountMatch[1])).value,
                  StripMatches(currentLine, patterns))

\* The two matches of the combined line reset both patterns.
WindowCombined(currentLine, combinedLine, patterns, count, lastIndex) ==
  [pushed |->
     WindowMatched(currentLine, patterns, count,
                   Match(combinedLine, patterns.datePattern),
                   Match(combinedLine, patterns.amountPattern)),
   lastIndex |->
     MatchResets(MatchResets(lastIndex, "datePattern"), "amountPattern")]

\* The body of the window loop of parseLineByLineFormat at index i (from 1).
LineWindow(lines, patterns, i, count, lastIndex) ==
  WindowCombined(Trim(lines[i]),
                 Trim(lines[i]) \o " " \o Trim(lines[i + 1]) \o " " \o Trim(lines[i + 2]),
                 patterns, count, lastIndex)

RECURSIVE LineWindows(_, _, _, _)
LineWindows(lines, patterns, i, sofar) ==
  IF i > Len(lines) - 2 THEN sofar
  ELSE LineWindows(lines, patterns, i + 1,
         Pushed(sofar, LineWindow(lines, patterns, i, Len(sofar.transactions),
                                  sofar.lastIndex)))

parseLineByLineFormat(lines, patterns, lastIndex) ==
  LineWindows(lines, patterns, 1,
              [transactions |-> <<>>, lastIndex |-> lastIndex])

RegexMatched(line, patterns, count, dateMatch, amountMatches) ==
  IF Len(dateMatch) = 0 \/ Len(amountMatches) = 0 THEN <<>>
  ELSE PushDescribed(count, standardizeDate(dateMatch[1]),
                     Trim(CollapseSpace(BlankNonWord(StripMatches(line, patterns)))),
                     LastOrFirstAmount(ParseAmounts(amountMatches)), line, 60)

\* The body of the line loop of parseRegexFormat for one line; its two
\* matches reset both patterns.
RegexLine(line, patterns, count, lastIndex) ==
  [pushed |->
     RegexMatched(line, patterns, count,
                  Match(line, patterns.datePattern),
                  Match(line, patterns.amountPattern)),
   lastIndex |->
     MatchResets(MatchResets(lastIndex, "datePattern"), "amountPattern")]

RECURSIVE RegexLines(_, _, _, _)
RegexLines(lines, patterns, i, sofar) ==
  IF i > Len(lines) THEN sofar
  ELSE RegexLines(lines, patterns, i + 1,
         Pushed(sofar, RegexLine(lines[i], patterns, Len(sofar.transactions),
                                 sofar.lastIndex)))

parseRegexFormat(text, patterns, lastIndex) ==
  RegexLines(NonBlank(Split(text, {"\n"})), patterns, 1,
             [transactions |-> <<>>, lastIndex |-> lastIndex])

(***************************************************************************)
(* parseTransactionsFromText.                                              *)
(***************************************************************************)
\* The strategies array, in its order.
StrategyNames == <<"tabular", "lineGrouped", "regexSweep">>

\* Strategy k called with the patterns at lastIndex: the transactions it
\* returns and the lastIndex it leaves in the patterns.
Strategy(k, allLines, text, patterns, lastIndex) ==
  CASE k = 1 -> parseTabularFormat(allLines, patterns, lastIndex)
    [] k = 2 -> parseLineByLineFormat(allLines, patterns, lastIndex)
    [] k = 3 -> parseRegexFormat(text, patterns, lastIndex)

\* for (const strategy of strategies): the strategies from k on, invoked
\* listing the strategies called so far with the number of candidates each
\* returned.  StrategyStep is the body of the loop once strategy k has
\* returned result: a non-empty result is pushed and the loop breaks.
\* (No strategy throws on a string, so the catch inside the loop is not
\* entered.)
RECURSIVE StrategyLoop(_, _, _, _, _, _)
\* The loop without its break: every strategy runs and the results are
\* merged.
StrategyStepMerging(k, allLines, text, patterns, invoked, result) ==
  [StrategyLoop(k + 1, allLines, text, patterns,
                Append(invoked, [strategy |-> StrategyNames[k],
                                 returned |-> Len(result.transactions)]),
                result.lastIndex)
     EXCEPT !.transactions = result.transactions \o @]

StrategyStep(k, allLines, text, patterns, invoked, result) ==
  IF Len(result.transactions) > 0
    THEN [transactions |-> result.transactions,
          invoked |-> Append(invoked, [strategy |-> StrategyNames[k],
                                       returned |-> Len(result.transactions)]),
          lastIndex |-> result.lastIndex]
    ELSE StrategyLoop(k + 1, allLines, text, patterns,
                      Append(invoked, [strategy |-> StrategyNames[k],
                                       returned |-> Len(result.transactions)]),
                      result.lastIndex)

StrategyLoop(k, allLines, text, patterns, invoked, lastIndex) ==
  IF k > Len(StrategyNames)
    THEN [transactions |-> <<>>, invoked |-> invoked, lastIndex |-> lastIndex]
    ELSE StrategyStep(k, allLines, text, patterns, invoked,
                      Strategy(k, allLines, text, patterns, lastIndex))

\* .filter(tx => tx.date && tx.amount !== 0)
RECURSIVE ValidOnly(_)
ValidOnly(transactions) ==
  IF Len(transactions) = 0 THEN <<>>
  ELSE (IF Len(transactions[1].date) > 0 /\ transactions[1].amount # 0
          THEN <<transactions[1]>> ELSE <<>>)
         \o ValidOnly(Tail(transactions))

\* .map((tx, index) => ({...tx, id: `pdf-${Date.now()}-${index}`}))
Renumber(transactions, now) ==
  [k \in 1 .. Len(transactions) |->
     [transactions[k] EXCEPT !.id = <<"pdf", now, k - 1>>]]

\* return { transactions: validTransactions, errors }
TextResult(validTransactions, invoked, lastIndex) ==
  [transactions |-> validTransactions,
   errors |->
     IF Len(validTransactions) = 0
       THEN << [message  |-> "No valid transactions could be extracted from the PDF text",
                severity |-> "warning"] >>
       ELSE <<>>,
   invoked |-> invoked,
   lastIndex |-> lastIndex]

\* What follows the loop, loop being what it left behind.
AfterStrategies(loop, now) ==
  TextResult(Renumber(ValidOnly(loop.transactions), now), loop.invoked,
             loop.lastIndex)

\* lastIndex is that of the two patterns of bankType when the function is
\* called; the result carries what the call leaves in them.
parseTransactionsFromText(text, bankType, now, lastIndex) ==
  AfterStrategies(StrategyLoop(1, NonBlank(Split(text, {"\n"})), text,
                               BANK_PATTERNS[bankType], <<>>, lastIndex),
                  now)

(***************************************************************************)
(* parsePDFBankStatement.  The function awaits pdfToText once, so it is    *)
(* two pieces: the validation that runs before the await, and what runs    *)
(* once pdfToText has settled.  A thrown Error is its message.             *)
(***************************************************************************)
\* 50 * 1024 * 1024
MaxPdfBytes == 52428800

\* confidenceThreshold = 0.7, the default of the configuration and the
\* value importStatement passes, in hundredths.  parsePDFBankStatement
\* destructures it and reads it nowhere.
confidenceThreshold == 70

PdfMime == "application/pdf"

\* catch (error): the result that carries the message of what was thrown.
PdfCatch(errorMessage) ==
  [transactions |-> <<>>,
   errors |-> << [message  |-> "PDF parsing failed: " \o errorMessage,
                  severity |-> "error"] >>,
   invoked |-> <<>>]

\* The validation without its size check.
PdfValidateTypeOnly(f) ==
  IF f.type # PdfMime THEN "Invalid PDF file provided" ELSE ""

\* The checks before the extraction: the message thrown, "" when none is.
PdfValidate(f) ==
  IF f.type # PdfMime THEN "Invalid PDF file provided"
  ELSE IF f.size > MaxPdfBytes THEN "PDF file too large (max 50MB)"
  ELSE ""

\* if (!text || text.trim().length === 0)
NoText(text) == Len(text) = 0 \/ Len(Trim(text)) = 0

\* The return statement without the push of the 'No transactions found'
\* error.
PdfResultWithoutPush(parsed) ==
  [transactions |-> parsed.transactions, errors |-> parsed.errors,
   invoked |-> parsed.invoked, lastIndex |-> parsed.lastIndex]

\* return { transactions, errors } of parsePDFBankStatement, parsed being
\* the result of parseTransactionsFromText.
PdfResult(parsed) ==
  [transactions |-> parsed.transactions,
   errors |->
     parsed.errors \o
       (IF Len(parsed.transactions) = 0
          THEN << [message  |-> "No transactions found in PDF. This might not be a bank statement or the format is not supported.",
                   severity |-> "error"] >>
          ELSE <<>>),
   invoked |-> parsed.invoked,
   lastIndex |-> parsed.lastIndex]

\* bankType === 'generic' ? detectBankType(text) : bankType
DetectedBankType(text, bankType) ==
  IF bankType = "generic" THEN detectBankType(text) ELSE bankType

\* From the resolution of pdfToText with text to the return statement;
\* lastIndex is that of the patterns of detectedBankType.
PdfAfterExtraction(text, detectedBankType, now, lastIndex) ==
  IF NoText(text)
    THEN PdfCatch("No text could be extracted from the PDF. The file might be scanned or corrupted.")
    ELSE PdfResult(parseTransactionsFromText(text, detectedBankType, now, lastIndex))

\* 10 * 1024 * 1024
MaxUploadBytes == 10485760

\* isValidFile of the import component.
isValidFile(f) ==
  /\ f.type \in {"text/csv", "application/pdf"}
  /\ ~(f.size > MaxUploadBytes)

\* isImageBasedPDFError of the import component.
isImageBasedPDFError(errors) ==
  \E k \in 1 .. Len(errors) :
     \E phrase \in {"no text could be extracted", "pdf parsing failed"} :
        Includes(ToLowerCase(errors[k].message), phrase)

(***************************************************************************)
(* The CSV path: the tables of utils/financial, parseCSVTransaction and    *)
(* the onload handler of parseCSVFile.                                     *)
(***************************************************************************)
\* Object.entries(TRANSACTION_CATEGORIES), in insertion order.
TRANSACTION_CATEGORIES ==
  << [category |-> "food",
      keywords |-> {"restaurant", "food", "cafe", "zomato", "swiggy", "dominos", "pizza", "mcdonald"}],
     [category |-> "transport",
      keywords |-> {"uber", "ola", "metro", "bus", "taxi", "petrol", "fuel", "parking"}],
     [category |-> "shopping",
      keywords |-> {"amazon", "flipkart", "mall", "store", "shop", "clothing", "electronics"}],
     [category |-> "utilities",
      keywords |-> {"electricity", "water", "gas", "internet", "mobile", "phone", "broadband"}],
     [category |-> "entertainment",
      keywords |-> {"movie", "cinema", "netflix", "spotify", "game", "theatre", "concert"}],
     [category |-> "healthcare",
      keywords |-> {"hospital", "clinic", "pharmacy", "medical", "doctor", "medicine"}],
     [category |-> "education",
      keywords |-> {"school", "college", "university", "course", "books", "fees"}],
     [category |-> "groceries",
      keywords |-> {"grocery", "supermarket", "vegetables", "milk", "bread", "provisions"}] >>

\* Object.entries(BANK_PATTERNS) of utils/financial, in insertion order.
BANK_NAME_PATTERNS ==
  << [category |-> "SBI",    keywords |-> {"state bank", "sbi", "state bank of india"}],
     [category |-> "HDFC",   keywords |-> {"hdfc", "hdfc bank"}],
     [category |-> "ICICI",  keywords |-> {"icici", "icici bank"}],
     [category |-> "AXIS",   keywords |-> {"axis", "axis bank"}],
     [category |-> "KOTAK",  keywords |-> {"kotak", "kotak mahindra"}],
     [category |-> "PNB",    keywords |-> {"pnb", "punjab national bank"}],
     [category |-> "BOI",    keywords |-> {"bank of india", "boi"}],
     [category |-> "CANARA", keywords |-> {"canara", "canara bank"}],
     [category |-> "UNION",  keywords |-> {"union bank", "union bank of india"}],
     [category |-> "BOB",    keywords |-> {"bank of baroda", "bob"}] >>

\* undefined
Undefined == "undefined"

detectBankFromText(text) ==
  FirstRule(BANK_NAME_PATTERNS, ToLowerCase(text), 1, Undefined)

\* category.charAt(0).toUpperCase() + category.slice(1), 'Other' when no
\* category matched.
CategoryLabel(category) == IF category = "" THEN "Other" ELSE Capitalize(category)

categorizeParsedTransaction(description) ==
  CategoryLabel(FirstRule(TRANSACTION_CATEGORIES, ToLowerCase(description), 1, ""))

\* replace(/['"]/g, '')
StripQuotes(s) == Join(Split(s, {"'", "\""}), "")

\* line.split(',').map(cell => cell.trim().replace(/['"]/g, ''))
CleanCells(raw) == [k \in 1 .. Len(raw) |-> StripQuotes(Trim(raw[k]))]

Cells(line) == CleanCells(Split(line, {","}))

\* headers.findIndex(h => h.toLowerCase().includes(name.toLowerCase())),
\* counted from 1 here, 0 when there is none.
HeaderIndex(headers, name) ==
  Least({i \in 1 .. Len(headers) :
           Includes(ToLowerCase(headers[i]), ToLowerCase(name))})

\* getField: the cell of the first field name that has a column and a
\* non-empty cell in it, '' when there is none.  getFieldAt is the body of
\* its loop for the first name, index being the column of that name.
RECURSIVE getField(_, _, _)
getFieldAt(row, headers, fieldNames, index) ==
  IF index # 0 /\ Len(row[index]) > 0
    THEN Trim(row[index])
    ELSE getField(row, headers, Tail(fieldNames))

getField(row, headers, fieldNames) ==
  IF Len(fieldNames) = 0 THEN ""
  ELSE getFieldAt(row, headers, fieldNames, HeaderIndex(headers, fieldNames[1]))

DigitString == "0123456789"

\* String(n) for a natural number.
RECURSIVE NatToString(_)
NatToString(n) ==
  IF n < 10 THEN Ch(DigitString, n + 1)
  ELSE NatToString(n \div 10) \o Ch(DigitString, (n % 10) + 1)

\* A number of the date in a field of the given width, zero-padded.
RECURSIVE ZeroPad(_, _)
ZeroPad(s, width) == IF Len(s) >= width THEN s ELSE ZeroPad("0" \o s, width)

IsLeapYear(y) == (y % 4 = 0 /\ y % 100 # 0) \/ y % 400 = 0

DaysInMonth(y, m) ==
  IF m = 2 THEN (IF IsLeapYear(y) THEN 29 ELSE 28)
  ELSE IF m \in {4, 6, 9, 11} THEN 30
  ELSE 31

AllDigits(s, from, to) == \A i \in from .. to : IsDigitAt(s, i)

\* new Date(date): the calendar day the engine reads, or invalid.  The two
\* documented input formats are read as the engines read them: YYYY-MM-DD
\* is the ISO date, and a slash date is month/day/year.  Every other string
\* of the model's rows (the empty cell among them) is an Invalid Date.  A
\* day past the end of its month, on which engines differ, is taken as
\* invalid; the rows of the model have none.
InvalidDate == [valid |-> FALSE, year |-> 0, month |-> 0, day |-> 0]

CalendarDate(y, m, d) ==
  IF m >= 1 /\ m <= 12 /\ d >= 1 /\ d <= DaysInMonth(y, m)
    THEN [valid |-> TRUE, year |-> y, month |-> m, day |-> d]
    ELSE InvalidDate

IsIsoDate(s) ==
  /\ Len(s) = 10
  /\ AllDigits(s, 1, 4) /\ Ch(s, 5) = "-" /\ AllDigits(s, 6, 7)
  /\ Ch(s, 8) = "-" /\ AllDigits(s, 9, 10)

SlashDate(slashParts) ==
  IF /\ Len(slashParts) = 3
     /\ Len(slashParts[1]) \in {1, 2}
     /\ Len(slashParts[2]) \in {1, 2}
     /\ Len(slashParts[3]) = 4
     /\ \A k \in 1 .. 3 : AllDigits(slashParts[k], 1, Len(slashParts[k]))
    THEN CalendarDate(DigitsValue(slashParts[3], 1, 4),
                      DigitsValue(slashParts[1], 1, Len(slashParts[1])),
                      DigitsValue(slashParts[2], 1, Len(slashParts[2])))
    ELSE InvalidDate

NewDate(s) ==
  IF IsIsoDate(s)
    THEN CalendarDate(DigitsValue(s, 1, 4), DigitsValue(s, 6, 7),
                      DigitsValue(s, 9, 10))
    ELSE SlashDate(Split(s, {"/"}))

\* toISOString() of a valid date, the local midnight of a slash date being
\* taken in a UTC environment.
ToISOString(date) ==
  ZeroPad(NatToString(date.year), 4) \o "-" \o ZeroPad(NatToString(date.month), 2)
    \o "-" \o ZeroPad(NatToString(date.day), 2) \o "T00:00:00.000Z"

\* The getField calls of parseCSVTransaction.
CsvFields(row, headers) ==
  [date         |-> getField(row, headers, <<"date", "transaction date", "value date">>),
   description  |-> getField(row, headers, <<"description", "particulars", "narration", "details">>),
   debitAmount  |-> getField(row, headers, <<"debit", "withdrawal", "debit amount">>),
   creditAmount |-> getField(row, headers, <<"credit", "deposit", "credit amount">>),
   balance      |-> getField(row, headers, <<"balance", "running balance", "available balance">>),
   reference    |-> getField(row, headers, <<"reference", "ref no", "transaction id", "cheque no">>)]

\* const isCredit = creditAmount && parseFloat(creditAmount) > 0
IsCredit(creditAmount) ==
  Len(creditAmount) > 0 /\ ParseFloat(creditAmount).value > 0

\* parseFloat(...) || 0
NumberOrZero(parsed) == IF parsed.isNaN THEN 0 ELSE parsed.value

\* The object parseCSVTransaction returns, and whether building it threw:
\* toISOString throws its RangeError when the date cell is no date, and
\* transaction is then unused.  The Math.random() suffix of the id is stood
\* for by the row number.
CsvTransaction(fields, now, rowNumber, isCredit, amount, parsedDate) ==
  [threw   |-> ~parsedDate.valid,
   message |-> "Invalid time value",
   transaction |->
     [id          |-> <<"parsed", now, rowNumber>>,
      date        |-> IF parsedDate.valid THEN ToISOString(parsedDate) ELSE "",
      description |-> IF Len(fields.description) > 0 THEN fields.description
                      ELSE "Unknown Transaction",
      amount      |-> Abs(amount),
      type        |-> IF isCredit THEN "credit" ELSE "debit",
      category    |-> categorizeParsedTransaction(fields.description),
      balance     |-> IF Len(fields.balance) > 0
                        THEN [defined |-> TRUE, number |-> ParseFloat(fields.balance)]
                        ELSE [defined |-> FALSE,
                              number  |-> [isNaN |-> TRUE, value |-> 0]],
      reference   |-> IF Len(fields.reference) > 0 THEN fields.reference
                      ELSE Undefined,
      isReconciled |-> FALSE,
      confidence  |-> IF Len(fields.description) > 0 /\ amount > 0 THEN 90 ELSE 50]]

CsvDirected(fields, now, rowNumber, isCredit) ==
  CsvTransaction(fields, now, rowNumber, isCredit,
                 NumberOrZero(ParseFloat(IF isCredit THEN fields.creditAmount
                                         ELSE fields.debitAmount)),
                 NewDate(fields.date))

CsvOfFields(fields, now, rowNumber) ==
  CsvDirected(fields, now, rowNumber, IsCredit(fields.creditAmount))

parseCSVTransaction(row, headers, now, rowNumber) ==
  CsvOfFields(CsvFields(row, headers), now, rowNumber)

\* csv.split('\n').map(line => line.trim()).filter(line => line)
RECURSIVE TrimmedNonEmpty(_)
TrimmedNonEmpty(lines) ==
  IF Len(lines) = 0 THEN <<>>
  ELSE (IF Len(Trim(lines[1])) > 0 THEN <<Trim(lines[1])>> ELSE <<>>)
         \o TrimmedNonEmpty(Tail(lines))

\* The body of the row loop of parseCSVFile for lines[k]; k is i + 1 of the
\* source, the row number that the errors carry.  CsvParsed is what follows
\* the call of parseCSVTransaction, tx being what it did.
CsvParsed(k, tx) ==
  IF tx.threw
    THEN [transactions |-> <<>>,
          errors |-> << [row |-> k,
                         message |-> "Failed to parse row: " \o tx.message,
                         severity |-> "error"] >>]
  ELSE IF tx.transaction.amount > 0
    THEN [transactions |-> <<tx.transaction>>, errors |-> <<>>]
  ELSE [transactions |-> <<>>,
        errors |-> << [row |-> k,
                       message |-> "Unable to parse transaction amount",
                       severity |-> "warning"] >>]

CsvCells(row, headers, k, now) ==
  IF Len(row) # Len(headers)
    THEN [transactions |-> <<>>,
          errors |-> << [row |-> k,
                         message |-> "Row has " \o NatToString(Len(row))
                                       \o " columns but expected "
                                       \o NatToString(Len(headers)),
                         severity |-> "warning"] >>]
    ELSE CsvParsed(k, parseCSVTransaction(row, headers, now, k))

CsvRow(lines, headers, k, now) == CsvCells(Cells(lines[k]), headers, k, now)

\* A row loop that stops pushing at the first row that pushed an error.
CollectUntilError(acc, r) ==
  IF acc.errors # <<>> THEN acc
  ELSE [transactions |-> acc.transactions \o r.transactions,
        errors       |-> acc.errors \o r.errors]

\* transactions.push / errors.push of one row onto what the loop has so far.
Collect(acc, r) ==
  [transactions |-> acc.transactions \o r.transactions,
   errors       |-> acc.errors \o r.errors]

RECURSIVE CsvRows(_, _, _, _, _)
CsvRows(lines, headers, k, now, acc) ==
  IF k > Len(lines) THEN acc
  ELSE CsvRows(lines, headers, k + 1, now,
               Collect(acc, CsvRow(lines, headers, k, now)))

\* reader.onload of parseCSVFile from the lines on.
CsvLines(lines, now) ==
  IF Len(lines) < 2
    THEN [transactions |-> <<>>,
          errors |-> << [message  |-> "CSV file must contain at least a header and one data row",
                         severity |-> "error"] >>]
    ELSE CsvRows(lines, Cells(lines[1]), 2, now,
                 [transactions |-> <<>>, errors |-> <<>>])

\* reader.onload of parseCSVFile: what the promise is resolved with.
CsvOnLoad(csv, now) == CsvLines(TrimmedNonEmpty(Split(csv, {"\n"})), now)

(***************************************************************************)
(* The store: financialDataReducer and the BankStatement records.          *)
(***************************************************************************)
\* {...a, ...b}
Merge(a, b) ==
  [f \in DOMAIN a \cup DOMAIN b |-> IF f \in DOMAIN b THEN b[f] ELSE a[f]]

initialState == [bankStatements |-> <<>>, isLoading |-> FALSE, error |-> "null"]

financialDataReducer(st, action) ==
  CASE action.type = "SET_LOADING" ->
         [st EXCEPT !.isLoading = action.payload]
    [] action.type = "SET_ERROR" ->
         [st EXCEPT !.error = action.payload]
    [] action.type = "ADD_BANK_STATEMENT" ->
         [st EXCEPT !.bankStatements = Append(@, action.payload)]
    [] action.type = "UPDATE_BANK_STATEMENT" ->
         [st EXCEPT !.bankStatements =
            [k \in 1 .. Len(@) |->
               IF @[k].id = action.payload.id
                 THEN Merge(@[k], action.payload.updates)
                 ELSE @[k]]]
    [] OTHER -> st

\* dispatch of each action of a sequence, in order.
RECURSIVE Dispatch(_, _)
Dispatch(st, actions) ==
  IF Len(actions) = 0 THEN st
  ELSE Dispatch(financialDataReducer(st, actions[1]), Tail(actions))

\* endsWith('.pdf')
EndsWithPdf(name) ==
  Len(name) >= 4 /\ SubSeq(name, Len(name) - 3, Len(name)) = ".pdf"

\* file.name.toLowerCase().endsWith('.pdf') ? 'pdf' : 'csv'
FileTypeOf(f) == IF EndsWithPdf(ToLowerCase(f.name)) THEN "pdf" ELSE "csv"

\* The BankStatement that importStatement builds.
NewStatement(f, now) ==
  [id               |-> <<"statement", now>>,
   fileName         |-> f.name,
   fileType         |-> FileTypeOf(f),
   uploadedAt       |-> now,
   status           |-> "processing",
   statementPeriod  |-> [startDate |-> "", endDate |-> ""],
   transactionCount |-> 0,
   errors           |-> <<>>]

\* statementPeriod of the UPDATE_BANK_STATEMENT payloads.
PeriodOf(transactions) ==
  [startDate |-> IF Len(transactions) > 0
                   THEN transactions[Len(transactions)].date ELSE "",
   endDate   |-> IF Len(transactions) > 0 THEN transactions[1].date ELSE ""]

\* toUpperCase() of a bank type.
BankTypeUpper(bankType) ==
  CASE bankType = "hdfc" -> "HDFC" [] bankType = "icici" -> "ICICI"
    [] bankType = "sbi" -> "SBI" [] bankType = "axis" -> "AXIS"
    [] bankType = "generic" -> "GENERIC"

\* The update dispatched when parseCSVFile has resolved.
CsvUpdate(id, f, result, now) ==
  [type |-> "UPDATE_BANK_STATEMENT",
   payload |->
     [id |-> id,
      updates |-> [status           |-> "completed",
                   processedAt      |-> now,
                   bankName         |-> detectBankFromText(f.name),
                   transactionCount |-> Len(result.transactions),
                   errors           |-> result.errors,
                   statementPeriod  |-> PeriodOf(result.transactions)]]]

\* The update dispatched when parsePDFBankStatement has resolved.
PdfUpdate(id, bankType, result, now) ==
  [type |-> "UPDATE_BANK_STATEMENT",
   payload |->
     [id |-> id,
      updates |-> [status           |-> IF Len(result.transactions) > 0
                                          THEN "completed" ELSE "failed",
                   processedAt      |-> now,
                   bankName         |-> BankTypeUpper(bankType),
                   transactionCount |-> Len(result.transactions),
                   errors           |-> result.errors,
                   statementPeriod  |-> PeriodOf(result.transactions)]]]

(***************************************************************************)
(* The files an import is run on.  A file is                               *)
(*   name, type, size  the File's own fields (size in bytes);              *)
(*   content           what file.text() and readAsText deliver;            *)
(*   readable          whether reading the bytes succeeds;                 *)
(*   layer             what pdfToText settles with: resolved with text, or *)
(*                     rejected with an Error of message error.            *)
(***************************************************************************)
PdfLines ==
  << "Date Description Amount",
     "01/04/2024 ATM WDL 500.00",
     "99/99/2024 SWIGGY -1,250.50",
     "ATM 01/04/2024",
     "HDFC BANK",
     "   " >>

CsvHeader == "Date,Narration,Debit,Credit,Balance"

CsvDataRows ==
  << "01/04/2024,ATM WDL,500,,1200",
     "25/04/2024,SWIGGY,250.50,,900",
     "2024-04-25,SALARY,,1000,2000",
     "01/04/2024,FEE,0,,1200",
     "01/04/2024,BAD ROW" >>

\* Every sequence of at most n elements of menu.
RECURSIVE SeqsUpTo(_, _)
SeqsUpTo(menu, n) ==
  IF n = 0 THEN {<<>>}
  ELSE LET shorter == SeqsUpTo(menu, n - 1)
       IN  shorter \cup {Append(q, menu[k]) : q \in shorter, k \in 1 .. Len(menu)}

PdfTexts == {Join(q, "\n") : q \in SeqsUpTo(PdfLines, MaxLines)}

CsvTexts == {Join(<<CsvHeader>> \o q, "\n") : q \in SeqsUpTo(CsvDataRows, MaxRows)}

SmallSize == 204800

TextLayer(text) == [resolved |-> TRUE, text |-> text, error |-> ""]

NoLayer == [resolved |-> FALSE, text |-> "", error |-> "Invalid PDF structure"]

PlainPdf(text) ==
  [name |-> "statement.pdf", type |-> PdfMime, size |-> SmallSize,
   content |-> "%PDF-1.4", readable |-> TRUE, layer |-> TextLayer(text)]

PlainCsv(csv) ==
  [name |-> "statement.csv", type |-> "text/csv", size |-> SmallSize,
   content |-> csv, readable |-> TRUE, layer |-> NoLayer]

SamplePdf == PlainPdf("Date Description Amount\n01/04/2024 ATM WDL 500.00")

SampleCsv == PlainCsv(CsvHeader \o "\n" \o CsvDataRows[1])

\* What file.text() delivers of PDFs that name banks, or none.
BankSamples ==
  << "HDFC BANK", "hdfc bank statement", "ICICI and Hdfc Bank Ltd",
     "ICICI Bank", "axis or icici", "STATE BANK OF INDIA", "Axis, SBI",
     "Axis Bank", "Statement of account" >>

\* Descriptions of statement lines, with keywords of one category, of
\* several, and of none.
CategorySamples ==
  << "SALARY TRANSFER", "SALARY CREDIT APR", "SWIGGY ORDER #123", "UBER TRIP",
     "NETFLIX SUBSCRIPTION", "ATM CASH PAYMENT", "HOSPITAL BILL PAYMENT",
     "AMAZON PRIME", "FOOD COURT MALL", "GAS STATION FUEL", "NEFT RENT",
     "BOOKS" >>

\* A description of 146 characters.
LongDescription ==
  "NEFT TRANSFER TO SAVINGS ACCOUNT OF THE LANDLORD NEFT TRANSFER TO SAVINGS ACCOUNT OF THE LANDLORD NEFT TRANSFER TO SAVINGS ACCOUNT OF THE LANDLORD"

\* Whole-number amounts as a statement writes them, with their value in
\* hundredths.
AmountSamples ==
  << [numeral |-> "500",   amount |-> 50000],
     [numeral |-> "5000",  amount |-> 500000],
     [numeral |-> "5,000", amount |-> 500000],
     [numeral |-> "12345", amount |-> 1234500] >>

\* A statement line ahead of the header line: the tabular strategy starts
\* after the header, the other two read every line.
LineAheadOfHeaderPdf ==
  PlainPdf("0 01/04/2024 ATM WDL 500.00\nDate Description Amount\nEND")

\* A PDF whose bytes name one bank and whose text another.
IciciBytesHdfcTextPdf ==
  [PlainPdf("HDFC BANK\n01/04/2024 ATM WDL 500.00")
     EXCEPT !.content = "%PDF-1.4 /Producer (ICICI Bank)"]

\* A statement of four lines, one of them with a date, that the tabular
\* strategy reads nothing from.
FourLinePdf == PlainPdf("HDFC BANK\nATM 01/04/2024\nHDFC BANK\nHDFC BANK")

PdfFiles ==
  {PlainPdf(t) : t \in PdfTexts}
    \cup {[SamplePdf EXCEPT !.type = "text/csv"],
          [SamplePdf EXCEPT !.size = MaxPdfBytes],
          [SamplePdf EXCEPT !.size = MaxPdfBytes + 1],
          [SamplePdf EXCEPT !.size = MaxPdfBytes + 1, !.type = "text/csv"],
          [SamplePdf EXCEPT !.layer = NoLayer],
          [SamplePdf EXCEPT !.readable = FALSE],
          [SamplePdf EXCEPT !.content = "%PDF-1.4 /Producer (ICICI Bank)"],
          FourLinePdf}
    \cup {[SamplePdf EXCEPT !.content = BankSamples[k]] :
            k \in 1 .. Len(BankSamples)}
    \cup {PlainPdf("01/04/2024 " \o CategorySamples[k] \o " 500.00") :
            k \in 1 .. Len(CategorySamples)}
    \cup {PlainPdf("01/04/2024 " \o LongDescription \o " 500.00")}
    \cup {PlainPdf("01/04/2024 ATM WDL " \o AmountSamples[k].numeral) :
            k \in 1 .. Len(AmountSamples)}
    \cup {PlainPdf("01/04/2024 ATM WDL 0.00"), LineAheadOfHeaderPdf,
          IciciBytesHdfcTextPdf}

CsvFiles ==
  {PlainCsv(c) : c \in CsvTexts}
    \cup {PlainCsv(""),
          [SampleCsv EXCEPT !.size = MaxPdfBytes + 1],
          [SampleCsv EXCEPT !.readable = FALSE],
          [SampleCsv EXCEPT !.name = "hdfc_april.csv"],
          [SampleCsv EXCEPT !.type = PdfMime]}

Files == PdfFiles \cup CsvFiles

\* The calls of importStatement: a first one and a second one.
Calls == {1, 2}

\* The files whose imports are run overlapping each other.
Overlapping ==
  {SamplePdf, SampleCsv,
   PlainPdf("HDFC BANK"),
   [SamplePdf EXCEPT !.size = MaxPdfBytes + 1]}

\* The file of each call: either call imports any file, a second call with
\* it importing the same file again or, among the overlapping files, any
\* file.
Scenarios == {[c \in Calls |-> f] : f \in Files} \cup [Calls -> Overlapping]

\* The number of clock readings the model tells apart.
MaxClock == 2

(***************************************************************************)
(* Gamification: the constants and helper functions of                     *)
(* constants/gamification and the reducer of GamificationContext.          *)
(***************************************************************************)
LEVEL_THRESHOLDS ==
  << [level |-> 1, requiredXP |-> 0, title |-> "Beginner",
      perks |-> <<>>, unlockedFeatures |-> <<>>],
     [level |-> 2, requiredXP |-> 100, title |-> "Learner",
      perks |-> <<"Basic insights">>, unlockedFeatures |-> <<"budget_alerts">>],
     [level |-> 3, requiredXP |-> 250, title |-> "Tracker",
      perks |-> <<"Weekly summaries">>, unlockedFeatures |-> <<"advanced_charts">>],
     [level |-> 4, requiredXP |-> 500, title |-> "Saver",
      perks |-> <<"Goal recommendations">>,
      unlockedFeatures |-> <<"investment_suggestions">>],
     [level |-> 5, requiredXP |-> 1000, title |-> "Budgeter",
      perks |-> <<"Smart budget tips">>, unlockedFeatures |-> <<"auto_budgeting">>],
     [level |-> 6, requiredXP |-> 2000, title |-> "Investor",
      perks |-> <<"Investment insights">>,
      unlockedFeatures |-> <<"portfolio_analysis">>],
     [level |-> 7, requiredXP |-> 4000, title |-> "Expert",
      perks |-> <<"Premium features">>,
      unlockedFeatures |-> <<"advanced_analytics">>],
     [level |-> 8, requiredXP |-> 8000, title |-> "Master",
      perks |-> <<"All features">>, unlockedFeatures |-> <<"premium_support">>] >>

\* The keys of XP_ACTIONS with their baseXP.
XP_ACTIONS ==
  << [name |-> "transaction_added", baseXP |-> 5],
     [name |-> "goal_created", baseXP |-> 25],
     [name |-> "goal_milestone_25", baseXP |-> 50],
     [name |-> "goal_milestone_50", baseXP |-> 75],
     [name |-> "goal_milestone_75", baseXP |-> 100],
     [name |-> "goal_completed", baseXP |-> 200],
     [name |-> "budget_adhered", baseXP |-> 15],
     [name |-> "challenge_completed", baseXP |-> 100],
     [name |-> "streak_maintained", baseXP |-> 10],
     [name |-> "profile_completed", baseXP |-> 50],
     [name |-> "first_login", baseXP |-> 25] >>

\* The ids of ACHIEVEMENTS with their reward.xp.
ACHIEVEMENTS ==
  << [id |-> "first_transaction", xp |-> 25],
     [id |-> "transaction_master", xp |-> 200],
     [id |-> "goal_setter", xp |-> 50],
     [id |-> "goal_achiever", xp |-> 150],
     [id |-> "streak_starter", xp |-> 75],
     [id |-> "streak_master", xp |-> 300],
     [id |-> "budget_guru", xp |-> 250],
     [id |-> "early_bird", xp |-> 15] >>

\* The loop of calculateLevel, from the last threshold down.
RECURSIVE LevelFrom(_, _)
LevelFrom(totalXP, i) ==
  IF i = 0 THEN 1
  ELSE IF totalXP >= LEVEL_THRESHOLDS[i].requiredXP
         THEN LEVEL_THRESHOLDS[i].level
         ELSE LevelFrom(totalXP, i - 1)

calculateLevel(totalXP) == LevelFrom(totalXP, Len(LEVEL_THRESHOLDS))

calculateXPToNextLevel(totalXP) ==
  LET currentLevel == calculateLevel(totalXP)
      next == Least({k \in 1 .. Len(LEVEL_THRESHOLDS) :
                       LEVEL_THRESHOLDS[k].level = currentLevel + 1})
  IN  IF next = 0 THEN 0 ELSE LEVEL_THRESHOLDS[next].requiredXP - totalXP

\* calculateStreakMultiplier, in halves: 3, 2, 1.5 and 1.
calculateStreakMultiplier(count) ==
  IF count >= 30 THEN 6
  ELSE IF count >= 14 THEN 4
  ELSE IF count >= 7 THEN 3
  ELSE 2

gamificationInitialState ==
  [userProgress |->
     [level |-> [currentLevel |-> 1, currentXP |-> 0, totalXP |-> 0,
                 xpToNextLevel |-> 100, title |-> "Beginner",
                 perks |-> <<>>, unlockedFeatures |-> <<>>],
      streaks |-> <<>>,
      achievements |-> <<>>,
      totalXP |-> 0, weeklyXP |-> 0, monthlyXP |-> 0,
      lastUpdated |-> 0],
   progressEvents |-> <<>>]

\* case 'AWARD_XP'
AwardXpCase(st, payload, now) ==
  LET newTotalXP == st.userProgress.totalXP + payload.amount
      currentLevel == calculateLevel(newTotalXP)
      levelThreshold == LEVEL_THRESHOLDS[currentLevel]
  IN  [st EXCEPT
         !.userProgress.totalXP = newTotalXP,
         !.userProgress.weeklyXP = @ + payload.amount,
         !.userProgress.monthlyXP = @ + payload.amount,
         !.userProgress.level =
            [currentLevel |-> currentLevel,
             currentXP |-> newTotalXP - levelThreshold.requiredXP,
             totalXP |-> newTotalXP,
             xpToNextLevel |-> calculateXPToNextLevel(newTotalXP),
             title |-> levelThreshold.title,
             perks |-> levelThreshold.perks,
             unlockedFeatures |-> levelThreshold.unlockedFeatures],
         !.userProgress.lastUpdated = now,
         !.progressEvents =
            Append(@, [type |-> "xp_gained", xpGained |-> payload.amount,
                       action |-> payload.action])]

\* state.userProgress.streaks[type] || the streak of no action
StreakOf(streaks, type) ==
  IF type \in DOMAIN streaks THEN streaks[type]
  ELSE [type |-> type, currentCount |-> 0, longestCount |-> 0,
        isActive |-> FALSE, multiplier |-> 2]

\* case 'UPDATE_STREAK'
UpdateStreakCase(st, payload, now) ==
  LET currentStreak == StreakOf(st.userProgress.streaks, payload.type)
      continue == payload.action = "continue"
      newCount == IF continue THEN currentStreak.currentCount + 1 ELSE 0
      updatedStreak ==
        [type |-> currentStreak.type,
         currentCount |-> newCount,
         longestCount |->
           IF continue /\ newCount > currentStreak.longestCount
             THEN newCount ELSE currentStreak.longestCount,
         isActive |-> continue,
         multiplier |-> calculateStreakMultiplier(newCount)]
  IN  [st EXCEPT
         !.userProgress.streaks =
            [t \in DOMAIN @ \cup {payload.type} |->
               IF t = payload.type THEN updatedStreak ELSE @[t]],
         !.userProgress.lastUpdated = now,
         !.progressEvents =
            Append(@, [type |-> IF continue THEN "streak_continued"
                                ELSE "streak_broken",
                       newCount |-> newCount,
                       previousCount |-> currentStreak.currentCount])]

\* case 'UNLOCK_ACHIEVEMENT'
UnlockAchievementCase(st, achievementId, now) ==
  LET found == Least({k \in 1 .. Len(ACHIEVEMENTS) :
                        ACHIEVEMENTS[k].id = achievementId})
  IN  IF found = 0 THEN st
      ELSE [st EXCEPT
              !.userProgress.achievements =
                 Append(@, [achievementId |-> achievementId, progress |-> 100]),
              !.userProgress.totalXP = @ + ACHIEVEMENTS[found].xp,
              !.userProgress.lastUpdated = now,
              !.progressEvents =
                 Append(@, [type |-> "achievement_unlocked",
                            xpGained |-> ACHIEVEMENTS[found].xp,
                            achievementId |-> achievementId])]

gamificationReducer(st, action, now) ==
  CASE action.type = "AWARD_XP" -> AwardXpCase(st, action.payload, now)
    [] action.type = "UPDATE_STREAK" -> UpdateStreakCase(st, action.payload, now)
    [] action.type = "UNLOCK_ACHIEVEMENT" ->
         UnlockAchievementCase(st, action.payload, now)
    [] OTHER -> st

\* The streak types and the achievement ids dispatched: the four types of a
\* Streak; the ids of ACHIEVEMENTS and one that is none of them.
StreakTypes == {"saving", "budget", "transaction", "goal"}

AchievementIds ==
  {ACHIEVEMENTS[k].id : k \in 1 .. Len(ACHIEVEMENTS)} \cup {"night_owl"}

\* The number of reducer actions dispatched.
MaxEvents == 3

(***************************************************************************)
(* The imports as a state machine.  Per call of importStatement:           *)
(*   file      the file the call is given                                  *)
(*   pc        where the import stands                                     *)
(*   returned  what the promise of importStatement resolved with: none, or *)
(*             the one statement                                           *)
(*   parse     the promise of parsePDFBankStatement or parseCSVFile:       *)
(*             settled is pending, resolved or rejected                    *)
(*   trace     what the run did, for the properties: the read operations   *)
(*             called on the file in their order, the text pdfToText       *)
(*             resolved with, the bank type handed to the parser, the bank *)
(*             type whose patterns it used and the strategies invoked      *)
(* and shared by the calls:                                                *)
(*   clock     Date.now()                                                  *)
(*   state     the store of the reducer                                    *)
(*   lastIndex the lastIndex of the patterns of BANK_PATTERNS              *)
(* Around them:                                                            *)
(*   component     the state of BankStatementImport: selectedFile (none or *)
(*                 the one file), importHistory, uploadProgress            *)
(*   ui            per call, where handleImport stands (at), the           *)
(*                 statementId it made, the importHistory its closure      *)
(*                 holds and the alert it showed                           *)
(*   localStorage  the browser's localStorage: the pdf_<id> items and the  *)
(*                 bankStatementHistory item (none or the one value)       *)
(*   gamification  the state of gamificationReducer                        *)
(***************************************************************************)
VARIABLES file, pc, clock, state, returned, parse, trace, lastIndex,
          component, ui, localStorage, gamification

vars == <<file, pc, clock, state, returned, parse, trace, lastIndex,
          component, ui, localStorage, gamification>>

Pending == [settled |-> "pending", transactions |-> <<>>, errors |-> <<>>]

Resolved(result) ==
  [settled |-> "resolved", transactions |-> result.transactions,
   errors |-> result.errors]

Init ==
  /\ file \in Scenarios
  /\ pc = [c \in Calls |-> "idle"]
  /\ clock = 0
  /\ state = initialState
  /\ returned = [c \in Calls |-> <<>>]
  /\ parse = [c \in Calls |-> Pending]
  /\ trace = [c \in Calls |->
                [reads |-> <<>>, extracted |-> <<>>, bankType |-> "",
                 detected |-> "", invoked |-> <<>>]]
  /\ lastIndex = [b \in BankTypes |-> [datePattern |-> 0, amountPattern |-> 0]]
  /\ component = [selectedFile |-> <<>>, importHistory |-> <<>>,
                  uploadProgress |-> 0]
  /\ ui = [c \in Calls |->
             [at |-> "none", statementId |-> <<>>, captured |-> <<>>,
              alert |-> ""]]
  /\ localStorage = [pdfs |-> {}, bankStatementHistory |-> <<>>]
  /\ gamification = gamificationInitialState

\* When the second call is made: once the first has been made, for the
\* overlapping files, and once the first import has ended, for the others.
CallMade(c) ==
  c = 2 =>
    \/ pc[1] \in {"finished", "readFailed"}
    \/ pc[1] # "idle" /\ file \in [Calls -> Overlapping]

\* Time passes; the passing is told apart where the timer of some call is
\* waiting for it, and where the next step of some call reads Date.now():
\* the call itself, or the settling of a read, of the sample or of the
\* extraction.  (The read of the data URL that handleImport waits for is not
\* timed.)
Tick ==
  /\ clock < MaxClock
  /\ \E c \in Calls :
        \/ pc[c] = "idle" /\ CallMade(c) /\ ui[c].at # "storing"
        \/ pc[c] = "scheduled" /\ clock = returned[c][1].uploadedAt
        \/ pc[c] \in {"reading", "sampling", "extracting"}
  /\ clock' = clock + 1
  /\ UNCHANGED <<file, pc, state, returned, parse, trace, lastIndex,
               component, ui, localStorage, gamification>>

\* importStatement(file) up to its return: the statement is added with
\* status processing, the timer is set and the statement is returned.
\* (Nothing in the try block throws for a File, so the catch that rethrows
\* is not entered.)  A call is made while the clock can still advance, so
\* that the timer of every call made can fire.
ImportStatementCall(c) ==
  /\ pc[c] = "idle"
  /\ clock < MaxClock
  /\ \E bankStatement \in {NewStatement(file[c], clock)} :
        /\ state' = Dispatch(state,
                     << [type |-> "SET_LOADING", payload |-> TRUE],
                        [type |-> "SET_ERROR", payload |-> "null"],
                        [type |-> "ADD_BANK_STATEMENT", payload |-> bankStatement] >>)
        /\ returned' = [returned EXCEPT ![c] = <<bankStatement>>]
  /\ pc' = [pc EXCEPT ![c] = "scheduled"]
  /\ UNCHANGED <<file, clock, parse, trace, lastIndex>>

\* A call of importStatement by itself, with no component around it.
ImportStatement(c) ==
  /\ CallMade(c)
  /\ ImportStatementCall(c)
  /\ UNCHANGED <<component, ui, localStorage, gamification>>

\* The setTimeout callback up to its first await, run once the delay of
\* 2000 ms has passed since the call: parseCSVFile creates the reader and
\* calls readAsText; the PDF branch calls file.text().  The timer of 1000 ms
\* that handleImport sets once the call has returned fires before it.
TimerFires(c) ==
  /\ pc[c] = "scheduled"
  /\ ui[c].at # "recording"
  /\ clock > returned[c][1].uploadedAt
  /\ IF returned[c][1].fileType = "csv"
       THEN /\ pc' = [pc EXCEPT ![c] = "reading"]
            /\ trace' = [trace EXCEPT ![c].reads = Append(@, "readAsText")]
       ELSE /\ pc' = [pc EXCEPT ![c] = "sampling"]
            /\ trace' = [trace EXCEPT ![c].reads = Append(@, "file.text")]
  /\ UNCHANGED <<file, clock, state, returned, parse, lastIndex,
               component, ui, localStorage, gamification>>

\* reader.onload, the resolution of parseCSVFile and the rest of the
\* callback: the update of the statement and SET_LOADING false.
ReaderLoad(c) ==
  /\ pc[c] = "reading"
  /\ file[c].readable
  /\ \E result \in {CsvOnLoad(file[c].content, clock)} :
        /\ parse' = [parse EXCEPT ![c] = Resolved(result)]
        /\ state' = Dispatch(state,
                     << CsvUpdate(returned[c][1].id, file[c], result, clock),
                        [type |-> "SET_LOADING", payload |-> FALSE] >>)
  /\ pc' = [pc EXCEPT ![c] = "finished"]
  /\ UNCHANGED <<file, clock, returned, trace, lastIndex,
               component, ui, localStorage, gamification>>

\* The reader fires its error event.  parseCSVFile sets no onerror, so no
\* code runs: the promise stays pending and the callback never resumes.
ReaderError(c) ==
  /\ pc[c] = "reading"
  /\ ~file[c].readable
  /\ pc' = [pc EXCEPT ![c] = "readFailed"]
  /\ UNCHANGED <<file, clock, state, returned, parse, trace, lastIndex,
               component, ui, localStorage, gamification>>

\* file.text() has settled (a rejection is caught into ''): the bank type
\* is detected from the sample and parsePDFBankStatement is called.  Either
\* its validation throws, is caught and the function returns, and the
\* callback dispatches the update; or pdfToText is called and awaited.
SampleSettled(c) ==
  /\ pc[c] = "sampling"
  /\ \E bankType \in {detectBankType(IF file[c].readable THEN file[c].content ELSE "")},
        thrown \in {PdfValidate(file[c])} :
        IF thrown # ""
          THEN /\ parse' = [parse EXCEPT ![c] = Resolved(PdfCatch(thrown))]
               /\ state' = Dispatch(state,
                            << PdfUpdate(returned[c][1].id, bankType,
                                         PdfCatch(thrown), clock),
                               [type |-> "SET_LOADING", payload |-> FALSE] >>)
               /\ trace' = [trace EXCEPT ![c].bankType = bankType]
               /\ pc' = [pc EXCEPT ![c] = "finished"]
          ELSE /\ trace' = [trace EXCEPT ![c].bankType = bankType,
                                         ![c].reads = Append(@, "pdfToText")]
               /\ pc' = [pc EXCEPT ![c] = "extracting"]
               /\ UNCHANGED <<state, parse>>
  /\ UNCHANGED <<file, clock, returned, lastIndex,
               component, ui, localStorage, gamification>>

\* pdfToText has rejected: the catch of parsePDFBankStatement and the rest
\* of the callback.
PdfToTextRejected(c) ==
  /\ pc[c] = "extracting"
  /\ ~file[c].layer.resolved
  /\ \E result \in {PdfCatch(file[c].layer.error)} :
        /\ parse' = [parse EXCEPT ![c] = Resolved(result)]
        /\ state' = Dispatch(state,
                     << PdfUpdate(returned[c][1].id, trace[c].bankType, result, clock),
                        [type |-> "SET_LOADING", payload |-> FALSE] >>)
  /\ pc' = [pc EXCEPT ![c] = "finished"]
  /\ UNCHANGED <<file, clock, returned, trace, lastIndex,
               component, ui, localStorage, gamification>>

\* pdfToText has resolved: the rest of parsePDFBankStatement, which runs on
\* the patterns as the calls before it left them, and the rest of the
\* callback.
PdfToTextSettled(c) ==
  /\ pc[c] = "extracting"
  /\ file[c].layer.resolved
  /\ \E detected \in {DetectedBankType(file[c].layer.text, trace[c].bankType)} :
       \E result \in {PdfAfterExtraction(file[c].layer.text, detected, clock,
                                         lastIndex[detected])} :
          /\ parse' = [parse EXCEPT ![c] = Resolved(result)]
          /\ state' = Dispatch(state,
                       << PdfUpdate(returned[c][1].id, trace[c].bankType, result, clock),
                          [type |-> "SET_LOADING", payload |-> FALSE] >>)
          /\ trace' = [trace EXCEPT ![c].extracted = <<file[c].layer.text>>,
                                    ![c].detected = detected,
                                    ![c].invoked = result.invoked]
          /\ lastIndex' = IF NoText(file[c].layer.text) THEN lastIndex
                          ELSE [lastIndex EXCEPT ![detected] = result.lastIndex]
  /\ pc' = [pc EXCEPT ![c] = "finished"]
  /\ UNCHANGED <<file, clock, returned,
               component, ui, localStorage, gamification>>

Next ==
  \/ Tick
  \/ \E c \in Calls :
        \/ ImportStatement(c)
        \/ TimerFires(c)
        \/ ReaderLoad(c)
        \/ ReaderError(c)
        \/ SampleSettled(c)
        \/ PdfToTextRejected(c)
        \/ PdfToTextSettled(c)

Spec == Init /\ [][Next]_vars

(***************************************************************************)
(* The properties.  They read the state the imports leave behind: parse[c] *)
(* is what the parser's promise of call c settled with,                    *)
(* state.bankStatements[c] the stored statement of call c (the first call  *)
(* adds its statement first), trace[c] what the run did.                   *)
(***************************************************************************)
\* Call c is a PDF import whose parser has run on an extracted, non-blank
\* text.
ParsedSomeText(c) ==
  /\ pc[c] = "finished"
  /\ trace[c].extracted # <<>>
  /\ ~NoText(trace[c].extracted[1])

\* No other call has made a statement with the id of the statement of c.
OwnId(c) ==
  \A d \in Calls \ {c} :
     returned[d] = <<>> \/ returned[d][1].id # returned[c][1].id

\* C1: parseTransactionsFromText tries the strategies in the order tabular,
\* line-grouped, regex-sweep; every strategy invoked before the last invoked
\* one returned no candidate, no strategy is invoked after one that returned
\* a candidate, all three are invoked when none returns any, and the
\* returned transactions are candidates of the last invoked strategy alone
\* (they carry its confidence and are no more than it returned).
C1_FirstProducingStrategyWins ==
  \A c \in Calls :
    ParsedSomeText(c) =>
      /\ Len(trace[c].invoked) \in 1 .. 3
      /\ \A k \in 1 .. Len(trace[c].invoked) :
            /\ trace[c].invoked[k].strategy = <<"tabular", "lineGrouped", "regexSweep">>[k]
            /\ k < Len(trace[c].invoked) => trace[c].invoked[k].returned = 0
      /\ trace[c].invoked[Len(trace[c].invoked)].returned = 0 =>
            Len(trace[c].invoked) = 3 /\ parse[c].transactions = <<>>
      /\ Len(parse[c].transactions) <= trace[c].invoked[Len(trace[c].invoked)].returned
      /\ \A j \in 1 .. Len(parse[c].transactions) :
            parse[c].transactions[j].confidence = <<80, 70, 60>>[Len(trace[c].invoked)]

\* The tabular strategy returned nothing and the line-grouped output is used.
C1_LineGroupedUsed ==
  /\ ParsedSomeText(1)
  /\ Len(trace[1].invoked) = 2
  /\ trace[1].invoked[1].returned = 0
  /\ trace[1].invoked[2].returned > 0
  /\ Len(parse[1].transactions) > 0

\* C2: every transaction the PDF path or the CSV path emits has an amount
\* >= 0 and a direction credit or debit; the PDF line
\* "99/99/2024 SWIGGY -1,250.50", read by the tabular or the regex strategy,
\* comes out as a debit of 1250.50.
C2_AmountsNonNegative ==
  \A c \in Calls :
    \A k \in 1 .. Len(parse[c].transactions) :
       /\ parse[c].transactions[k].amount >= 0
       /\ parse[c].transactions[k].type \in {"credit", "debit"}
       /\ (parse[c].transactions[k].description = "SWIGGY"
             /\ parse[c].transactions[k].confidence \in {80, 60}) =>
            (parse[c].transactions[k].type = "debit"
              /\ parse[c].transactions[k].amount = 125050)

\* A negative source amount has been emitted, as a debit of its magnitude.
C2_NegativeSourceEmitted ==
  /\ pc[1] = "finished"
  /\ returned[1][1].fileType = "pdf"
  /\ \E k \in 1 .. Len(parse[1].transactions) :
        /\ parse[1].transactions[k].description = "SWIGGY"
        /\ parse[1].transactions[k].type = "debit"
        /\ parse[1].transactions[k].amount = 125050

\* C3: every emitted transaction's date is a valid calendar date (month 1-12
\* and a day of that month).
C3_DatesAreCalendarDates ==
  \A c \in Calls :
    \A k \in 1 .. Len(parse[c].transactions) :
       /\ Len(parse[c].transactions[k].date) >= 10
       /\ IsIsoDate(SubSeq(parse[c].transactions[k].date, 1, 10))
       /\ NewDate(SubSeq(parse[c].transactions[k].date, 1, 10)).valid

\* C4: once the read of the file has ended, in success or in failure, the
\* promise of parsePDFBankStatement or parseCSVFile is resolved with a
\* {transactions, errors} result (never rejected, never left pending).
C4_ParsersAlwaysResolve ==
  \A c \in Calls :
    pc[c] \in {"finished", "readFailed"} => parse[c].settled = "resolved"

\* Call c is an import, routed to the PDF parser, of a file with an
\* unrecoverable condition: a type that is not the PDF type, a size over the
\* ceiling, or an extraction that yields no text.
UnrecoverablePdfImport(c) ==
  /\ pc[c] = "finished"
  /\ returned[c][1].fileType = "pdf"
  /\ \/ file[c].type # "application/pdf"
     \/ file[c].size > MaxPdfBytes
     \/ (trace[c].extracted # <<>> /\ NoText(trace[c].extracted[1]))

C6_OversizeRefusedBeforeReading ==
  \A c \in Calls :
    file[c].size > MaxPdfBytes =>
      /\ \A k \in 1 .. Len(trace[c].reads) :
            trace[c].reads[k] \notin {"pdfToText", "readAsText"}
      /\ pc[c] = "finished" =>
            /\ Len(parse[c].errors) = 1
            /\ Includes(ToLowerCase(parse[c].errors[1].message), "too large")

\* C7: for a PDF import, isImageBasedPDFError of the error list of the
\* import is true exactly when the extracted text was empty or white space
\* only.
C7_ScannedPdfTagIsExact ==
  \A c \in Calls :
    (pc[c] = "finished" /\ returned[c][1].fileType = "pdf") =>
      (isImageBasedPDFError(parse[c].errors)
         <=> (trace[c].extracted # <<>> /\ NoText(trace[c].extracted[1])))

DocumentedDate(cell) ==
  \/ IsIsoDate(cell) /\ NewDate(cell).valid
  \/ /\ Len(cell) = 10
     /\ FixedDateEnd(cell, 1, {"/"}) = 10
     /\ CalendarDate(DigitsValue(cell, 7, 10), DigitsValue(cell, 4, 5),
                     DigitsValue(cell, 1, 2)).valid

\* The lines of the CSV file of call c, the header first.
CsvLinesOfFile(c) == TrimmedNonEmpty(Split(file[c].content, {"\n"}))

\* Line k of the file of call c is a well-formed row under the header
\* Date,Narration,Debit,Credit,Balance: the header's column count, a
\* documented date, and a number in the debit or the credit cell.
WellFormedRow(c, k) ==
  /\ Len(Cells(CsvLinesOfFile(c)[k])) = 5
  /\ DocumentedDate(Cells(CsvLinesOfFile(c)[k])[1])
  /\ \/ ~ParseFloat(Cells(CsvLinesOfFile(c)[k])[3]).isNaN
     \/ ~ParseFloat(Cells(CsvLinesOfFile(c)[k])[4]).isNaN

\* The amount of row k parses to zero.
ZeroAmountRow(c, k) ==
  /\ ParseFloat(Cells(CsvLinesOfFile(c)[k])[3]).value = 0
  /\ ParseFloat(Cells(CsvLinesOfFile(c)[k])[4]).value = 0

\* C9: for a CSV with the header and N data rows, all well-formed,
\* parseCSVFile returns N transactions less the rows whose amount parses to
\* zero, and reports no row as an error.
C9_WellFormedRowsAllReturned ==
  \A c \in Calls :
    (/\ pc[c] = "finished"
     /\ returned[c][1].fileType = "csv"
     /\ Len(CsvLinesOfFile(c)) >= 2
     /\ CsvLinesOfFile(c)[1] = CsvHeader
     /\ \A k \in 2 .. Len(CsvLinesOfFile(c)) : WellFormedRow(c, k)) =>
      /\ Len(parse[c].transactions) =
           Cardinality({k \in 2 .. Len(CsvLinesOfFile(c)) : ~ZeroAmountRow(c, k)})
      /\ \A j \in 1 .. Len(parse[c].errors) : parse[c].errors[j].severity # "error"

\* C10: the CSV of the header Date,Narration,Debit,Credit,Balance and the
\* row 01/04/2024,ATM WDL,500,,1200 yields one transaction, a debit of 500
\* of category cash.
C10_AtmRowIsCashDebit ==
  \A c \in Calls :
    (/\ pc[c] = "finished"
     /\ file[c].content = "Date,Narration,Debit,Credit,Balance\n01/04/2024,ATM WDL,500,,1200") =>
      /\ Len(parse[c].transactions) = 1
      /\ parse[c].transactions[1].type = "debit"
      /\ parse[c].transactions[1].amount = 50000
      /\ ToLowerCase(parse[c].transactions[1].category) = "cash"

\* The (date, description, amount, direction, category) tuples of the
\* transactions call c emitted, in their order.
TuplesOf(c) ==
  [k \in 1 .. Len(parse[c].transactions) |->
     << parse[c].transactions[k].date, parse[c].transactions[k].description,
        parse[c].transactions[k].amount, parse[c].transactions[k].type,
        parse[c].transactions[k].category >>]

\* The sequences a and b hold the same elements the same number of times.
SameMultiset(a, b) ==
  /\ Len(a) = Len(b)
  /\ \A k \in 1 .. Len(a) :
        Cardinality({i \in 1 .. Len(a) : a[i] = a[k]})
          = Cardinality({i \in 1 .. Len(b) : b[i] = a[k]})

\* The two calls have run the pipeline on the same input: the same
\* extracted text with the patterns of the same bank type, or the same CSV
\* content.
SameInputTwice ==
  /\ pc[1] = "finished" /\ pc[2] = "finished"
  /\ returned[1][1].fileType = returned[2][1].fileType
  /\ IF returned[1][1].fileType = "pdf"
       THEN /\ trace[1].extracted # <<>>
            /\ trace[1].extracted = trace[2].extracted
            /\ trace[1].detected = trace[2].detected
       ELSE file[1].content = file[2].content

\* C11: two runs of the import pipeline on the same input, the second one
\* finding the shared patterns as the first left them, emit the same
\* multiset of (date, description, amount, direction, category) tuples.
C11_SameInputSameTuples ==
  SameInputTwice => SameMultiset(TuplesOf(1), TuplesOf(2))

\* A text has been parsed twice with transactions emitted, and the date
\* pattern the runs share is left with a lastIndex that is not 0.
C11_RerunOnUsedPatterns ==
  /\ SameInputTwice
  /\ returned[1][1].fileType = "pdf"
  /\ Len(parse[2].transactions) > 0
  /\ lastIndex[trace[2].detected].datePattern > 0

\* The lines of the text extracted for call c that hold a date of the
\* statement's bank profile: its statement lines.
DatedLines(c) ==
  {k \in 1 .. Len(Split(trace[c].extracted[1], {"\n"})) :
     Test(BANK_PATTERNS[trace[c].detected].datePattern,
          Split(trace[c].extracted[1], {"\n"})[k], 0).found}

\* C12: no two emitted transactions stem from the same statement line, so
\* an import emits no more transactions than its text has lines with a date.
C12_OneTransactionPerLine ==
  \A c \in Calls :
    ParsedSomeText(c) =>
      Len(parse[c].transactions) <= Cardinality(DatedLines(c))

\* The bank names of the profiles, in the order of the checks.
BankNamesInOrder ==
  << [profile |-> "hdfc",  names |-> {"hdfc"}],
     [profile |-> "icici", names |-> {"icici"}],
     [profile |-> "sbi",   names |-> {"state bank", "sbi"}],
     [profile |-> "axis",  names |-> {"axis"}] >>

\* The profiles a name of which occurs in lowerText, as indices of the order.
NamedIn(lowerText) ==
  {k \in 1 .. Len(BankNamesInOrder) :
     \E name \in BankNamesInOrder[k].names : Includes(lowerText, name)}

\* The profile the first check that matches selects, generic when none does.
FirstNamed(named) ==
  IF named = {} THEN "generic"
  ELSE BankNamesInOrder[CHOOSE k \in named : \A j \in named : k <= j].profile

\* C13: detectBankType, applied to the text of the file, selects the profile
\* of the first of hdfc, icici, sbi ("state bank" or "sbi"), axis with a name
\* in the text, letter case ignored; hdfc for a text with "HDFC BANK" in any
\* case whatever else it names; generic for a text with none of the names.
C13_FirstBankNameWins ==
  \A c \in Calls :
    (trace[c].bankType # "" /\ file[c].readable) =>
      /\ trace[c].bankType = FirstNamed(NamedIn(ToLowerCase(file[c].content)))
      /\ Includes(ToLowerCase(file[c].content), "hdfc bank") =>
            trace[c].bankType = "hdfc"
      /\ NamedIn(ToLowerCase(file[c].content)) = {} =>
            trace[c].bankType = "generic"
      /\ (trace[c].extracted # <<>> /\ trace[c].bankType = "generic") =>
            trace[c].detected =
              FirstNamed(NamedIn(ToLowerCase(trace[c].extracted[1])))

\* The bank type of a text that names ICICI ahead of "Hdfc Bank" has been
\* detected, as hdfc.
C13_HdfcAmongOthers ==
  /\ file[1].content = "ICICI and Hdfc Bank Ltd"
  /\ trace[1].bankType = "hdfc"

\* The category groups in the order the claim gives them.
GroupOrder ==
  << "income", "food", "transport", "shopping", "utilities", "entertainment",
     "cash", "transfer", "payment", "healthcare" >>

\* The groups, as indices of the order, with a keyword in lowerText.
GroupsHit(lowerText) ==
  {g \in 1 .. Len(GroupOrder) :
     \E k \in 1 .. Len(CategoryRules) :
        /\ CategoryRules[k].category = GroupOrder[g]
        /\ \E word \in CategoryRules[k].keywords : Includes(lowerText, word)}

\* The first group of the order among hit, other when there is none.
FirstGroup(hit) ==
  IF hit = {} THEN "other"
  ELSE GroupOrder[CHOOSE g \in hit : \A h \in hit : g <= h]

\* The categories of five descriptions.
ExamplesCategorized ==
  /\ categorizeTransaction("salary transfer") = "income"
  /\ categorizeTransaction("SWIGGY ORDER #123") = "food"
  /\ categorizeTransaction("UBER TRIP") = "transport"
  /\ categorizeTransaction("NETFLIX SUBSCRIPTION") = "entertainment"
  /\ categorizeTransaction("SALARY CREDIT APR") = "income"

\* C14: the category categorizeTransaction gives a description (the tabular
\* and the regex strategy call it on every description they emit) is that
\* of the first group, in the order income, food, transport, shopping,
\* utilities, entertainment, cash, transfer, payment, healthcare, with a
\* keyword in the description, letter case ignored, and other when no group
\* has one; "salary transfer" is income, "SWIGGY ORDER #123" food,
\* "UBER TRIP" transport, "NETFLIX SUBSCRIPTION" entertainment and
\* "SALARY CREDIT APR" income.
C14_FirstGroupWins ==
  /\ \A c \in Calls :
       \A k \in 1 .. Len(parse[c].transactions) :
          parse[c].transactions[k].confidence \in {80, 60} =>
            parse[c].transactions[k].category =
              FirstGroup(GroupsHit(ToLowerCase(parse[c].transactions[k].description)))
  /\ ExamplesCategorized

\* A description with an income keyword and a transfer keyword has been
\* emitted, as income.
C14_SalaryTransferEmitted ==
  \E k \in 1 .. Len(parse[1].transactions) :
     /\ parse[1].transactions[k].description = "SALARY TRANSFER"
     /\ parse[1].transactions[k].category = "income"

\* C15: the category of every emitted transaction, of the PDF path and of
\* the CSV path, is one of food, transport, shopping, utilities,
\* entertainment, healthcare, education, groceries, income, transfer, cash,
\* other (the CSV path writes them with a capital first letter, so letter
\* case is ignored).
C15_CategoryInFixedSet ==
  \A c \in Calls :
    \A k \in 1 .. Len(parse[c].transactions) :
       ToLowerCase(parse[c].transactions[k].category) \in
         {"food", "transport", "shopping", "utilities", "entertainment",
          "healthcare", "education", "groceries", "income", "transfer",
          "cash", "other"}

\* C16: the description of every emitted transaction, whichever strategy
\* or path produced it, is at most 100 characters long, the truncation
\* marker included.
C16_DescriptionAtMost100 ==
  \A c \in Calls :
    \A k \in 1 .. Len(parse[c].transactions) :
       Len(parse[c].transactions[k].description) <= 100

\* The day of a date YYYY-MM-DD... as a number that orders the dates.
DayNumber(date) ==
  DigitsValue(date, 1, 4) * 10000 + DigitsValue(date, 6, 7) * 100
    + DigitsValue(date, 9, 10)

\* C17: for a completed import with at least one transaction, the
\* statementPeriod recorded in the statement (of an id no other statement
\* has) starts at the least and ends at the greatest of the dates of the
\* emitted transactions, so it does not start after it ends.
C17_PeriodIsMinMax ==
  \A c \in Calls :
    (/\ pc[c] = "finished"
     /\ Len(parse[c].transactions) > 0
     /\ OwnId(c)
     /\ state.bankStatements[c].status = "completed") =>
      /\ \A k \in 1 .. Len(parse[c].transactions) :
            /\ DayNumber(state.bankStatements[c].statementPeriod.startDate)
                 <= DayNumber(parse[c].transactions[k].date)
            /\ DayNumber(parse[c].transactions[k].date)
                 <= DayNumber(state.bankStatements[c].statementPeriod.endDate)
      /\ \E k \in 1 .. Len(parse[c].transactions) :
            state.bankStatements[c].statementPeriod.startDate
              = parse[c].transactions[k].date
      /\ \E k \in 1 .. Len(parse[c].transactions) :
            state.bankStatements[c].statementPeriod.endDate
              = parse[c].transactions[k].date

\* C18: the statement the promise of importStatement resolves with is final:
\* its status is completed or failed, and once the import has finished it
\* carries the transactionCount, errors and statementPeriod that the import
\* stored, so that isImageBasedPDFError of its errors is that of the errors
\* of the parse.
C18_ReturnedStatementIsFinal ==
  \A c \in Calls :
    /\ returned[c] # <<>> => returned[c][1].status \in {"completed", "failed"}
    /\ (pc[c] = "finished" /\ OwnId(c)) =>
         /\ returned[c][1].transactionCount
              = state.bankStatements[c].transactionCount
         /\ returned[c][1].errors = state.bankStatements[c].errors
         /\ returned[c][1].statementPeriod
              = state.bankStatements[c].statementPeriod
         /\ isImageBasedPDFError(returned[c][1].errors)
              = isImageBasedPDFError(parse[c].errors)

\* Call c has made its statement and its import has not finished.
Processing(c) ==
  pc[c] \in {"scheduled", "reading", "sampling", "extracting"}

\* C19: the statements of two importStatement calls have distinct ids, and
\* while the import of one call is still in progress its stored statement is
\* as the call added it, whatever the other call has completed.
C19_ImportsDoNotInterfere ==
  \A c \in Calls : \A d \in Calls \ {c} :
    /\ (returned[c] # <<>> /\ returned[d] # <<>>) =>
         returned[c][1].id # returned[d][1].id
    /\ (Processing(c) /\ returned[d] # <<>>) =>
         state.bankStatements[c] = returned[c][1]

\* The error of row k in the errors of the CSV parse of call c says what the
\* row loop can say of a row: a warning of a column mismatch or of an amount,
\* or an error of an exception.
RowErrorOfLoop(c, j) ==
  /\ parse[c].errors[j].row \in 2 .. Len(CsvLinesOfFile(c))
  /\ \/ /\ parse[c].errors[j].severity = "warning"
        /\ IF Len(Cells(CsvLinesOfFile(c)[parse[c].errors[j].row]))
                # Len(Cells(CsvLinesOfFile(c)[1]))
             THEN IndexOfFrom(parse[c].errors[j].message, "Row has ", 1) = 1
             ELSE parse[c].errors[j].message = "Unable to parse transaction amount"
     \/ /\ parse[c].errors[j].severity = "error"
        /\ Len(Cells(CsvLinesOfFile(c)[parse[c].errors[j].row]))
             = Len(Cells(CsvLinesOfFile(c)[1]))
        /\ IndexOfFrom(parse[c].errors[j].message, "Failed to parse row: ", 1) = 1

\* C20: parseCSVFile accounts for every data row once: the errors carry the
\* indices of distinct data rows, in the order of the rows, each a warning or
\* an error of the row loop, and the transactions and the errors together
\* are as many as the data rows.
C20_EveryRowAccountedOnce ==
  \A c \in Calls :
    (/\ pc[c] = "finished"
     /\ returned[c][1].fileType = "csv"
     /\ Len(CsvLinesOfFile(c)) >= 2) =>
      /\ Len(parse[c].transactions) + Len(parse[c].errors)
           = Len(CsvLinesOfFile(c)) - 1
      /\ \A j \in 1 .. Len(parse[c].errors) : RowErrorOfLoop(c, j)
      /\ \A i, j \in 1 .. Len(parse[c].errors) :
            i < j => parse[c].errors[i].row < parse[c].errors[j].row

\* A CSV whose first data row threw and whose second gave a transaction.
C20_RowAfterFailedRowParsed ==
  /\ pc[1] = "finished"
  /\ returned[1][1].fileType = "csv"
  /\ Len(CsvLinesOfFile(1)) = 3
  /\ Len(parse[1].errors) = 1
  /\ parse[1].errors[1].row = 2
  /\ parse[1].errors[1].severity = "error"
  /\ Len(parse[1].transactions) = 1

\* The one line of the text extracted for call c, trimmed, when the text is
\* one line that the row loop of the tabular strategy reads.
OneLineText(c) ==
  /\ ParsedSomeText(c)
  /\ Len(NonBlank(Split(trace[c].extracted[1], {"\n"}))) = 1
  /\ Len(Trim(NonBlank(Split(trace[c].extracted[1], {"\n"}))[1])) >= 10

TheLine(c) == Trim(NonBlank(Split(trace[c].extracted[1], {"\n"}))[1])

\* The amount-pattern matches of the line, as numbers.
AmountsOfLine(c) ==
  ParseAmounts(Match(TheLine(c), BANK_PATTERNS[trace[c].detected].amountPattern))

\* C22: for a data line with a date match and amount matches, the tabular
\* strategy (confidence 0.8) emits the magnitude of the last amount match,
\* and emits nothing when that last match is zero.
C22_LastAmountOrDropped ==
  \A c \in Calls :
    (/\ OneLineText(c)
     /\ Len(Match(TheLine(c), BANK_PATTERNS[trace[c].detected].datePattern)) > 0
     /\ Len(AmountsOfLine(c)) > 0) =>
       \A k \in 1 .. Len(parse[c].transactions) :
          parse[c].transactions[k].confidence = 80 =>
            /\ AmountsOfLine(c)[Len(AmountsOfLine(c))] # 0
            /\ parse[c].transactions[k].amount
                 = Abs(AmountsOfLine(c)[Len(AmountsOfLine(c))])

\* C23: the line '<date> <description> <amount>' with a whole-number amount,
\* with or without thousands separators, is emitted with that amount.
C23_WholeNumberAmounts ==
  \A c \in Calls : \A n \in 1 .. Len(AmountSamples) :
    (/\ ParsedSomeText(c)
     /\ trace[c].extracted[1] = "01/04/2024 ATM WDL " \o AmountSamples[n].numeral) =>
       /\ Len(parse[c].transactions) = 1
       /\ parse[c].transactions[1].amount = AmountSamples[n].amount

\* C24: parseTransactionsFromText returns no transaction (and the warning)
\* only when all three strategies have been invoked.
C24_EmptyOnlyAfterAllStrategies ==
  \A c \in Calls :
    (ParsedSomeText(c) /\ parse[c].transactions = <<>>) =>
       Len(trace[c].invoked) = 3

\* C25: the profile the strategies are run with is the one detectBankType
\* selects from the extracted text; a text with "hdfc" is recognised with
\* the hdfc profile.
C25_ProfileFromExtractedText ==
  \A c \in Calls :
    ParsedSomeText(c) =>
      /\ trace[c].detected
           = FirstNamed(NamedIn(ToLowerCase(trace[c].extracted[1])))
      /\ Includes(ToLowerCase(trace[c].extracted[1]), "hdfc") =>
            trace[c].detected = "hdfc"

\* C26: no transaction parsePDFBankStatement returns has a confidence below
\* confidenceThreshold.
C26_ConfidenceAtLeastThreshold ==
  \A c \in Calls :
    \A k \in 1 .. Len(parse[c].transactions) :
       returned[c][1].fileType = "pdf" =>
         parse[c].transactions[k].confidence >= confidenceThreshold

\* C28: isLoading is true whenever a statement of the store has status
\* processing.
C28_LoadingWhileProcessing ==
  (\E k \in 1 .. Len(state.bankStatements) :
      state.bankStatements[k].status = "processing") => state.isLoading

\* C29: a file that isValidFile accepts is parsed by the path of its MIME
\* type: the PDF path reads it with file.text() and pdfToText, the CSV path
\* with readAsText.
C29_PathOfMimeType ==
  \A c \in Calls :
    (isValidFile(file[c]) /\ trace[c].reads # <<>>) =>
      trace[c].reads[1]
        = (IF file[c].type = "application/pdf" THEN "file.text" ELSE "readAsText")

\* The steps of ReaderLoad(c) and of PdfToTextSettled(c), told by where the
\* import stands before and after them: each is enabled exactly when the
\* action is, and a step of Next is one of them exactly when it is a step of
\* the action.
Loaded(c) ==
  /\ pc[c] = "reading"
  /\ file[c].readable
  /\ pc' = [pc EXCEPT ![c] = "finished"]

Extracted(c) ==
  /\ pc[c] = "extracting"
  /\ file[c].layer.resolved
  /\ pc' = [pc EXCEPT ![c] = "finished"]

\* The imports with their callbacks delivered: time passes while something
\* waits for it, a timer whose delay has passed fires, a reader delivers its
\* load or its error event, file.text() and pdfToText settle.
Fairness ==
  /\ WF_vars(Tick)
  /\ \A c \in Calls :
        /\ WF_vars(TimerFires(c))
        /\ WF_pc(Loaded(c))
        /\ WF_vars(ReaderError(c))
        /\ WF_vars(SampleSettled(c))
        /\ WF_vars(PdfToTextRejected(c))
        /\ WF_pc(Extracted(c))

\* One file for each outcome of reading and parsing: a CSV that is read and
\* parsed, one whose read fails, an empty one; a PDF whose text is extracted
\* and yields a transaction, one whose text yields none, one whose
\* extraction fails, one whose bytes cannot be read, one that is refused for
\* its size.
Outcomes ==
  {SampleCsv, [SampleCsv EXCEPT !.readable = FALSE], PlainCsv(""),
   SamplePdf, PlainPdf("HDFC BANK"), [SamplePdf EXCEPT !.layer = NoLayer],
   [SamplePdf EXCEPT !.readable = FALSE],
   [SamplePdf EXCEPT !.size = MaxPdfBytes + 1]}

\* The imports of these files, one after the other or overlapping.
FairInit ==
  /\ Init
  /\ file \in {[c \in Calls |-> f] : f \in Outcomes} \cup [Calls -> Overlapping]

FairSpec == FairInit /\ [][Next]_vars /\ Fairness

\* C27: every statement added with status processing eventually has status
\* completed or failed, and isLoading, once true, eventually is false again.
C27_EveryImportEnds ==
  /\ \A k \in Calls :
        (/\ Len(state.bankStatements) >= k
         /\ state.bankStatements[k].status = "processing")
          ~> (/\ Len(state.bankStatements) >= k
              /\ state.bankStatements[k].status \in {"completed", "failed"})
  /\ state.isLoading ~> ~state.isLoading

(***************************************************************************)
(* The gamification reducer as a state machine: the dispatches of AWARD_XP *)
(* with the base amount of an XP action, of UPDATE_STREAK and of           *)
(* UNLOCK_ACHIEVEMENT, from the initial state.                             *)
(***************************************************************************)
Dispatched == Len(gamification.progressEvents)

AwardXp ==
  /\ Dispatched < MaxEvents
  /\ \E k \in 1 .. Len(XP_ACTIONS) :
        gamification' =
          gamificationReducer(gamification,
            [type |-> "AWARD_XP",
             payload |-> [amount |-> XP_ACTIONS[k].baseXP,
                          action |-> XP_ACTIONS[k].name]], clock)
  /\ UNCHANGED <<file, pc, clock, state, returned, parse, trace, lastIndex,
                 component, ui, localStorage>>

UpdateStreak ==
  /\ Dispatched < MaxEvents
  /\ \E type \in StreakTypes, action \in {"continue", "break"} :
        gamification' =
          gamificationReducer(gamification,
            [type |-> "UPDATE_STREAK",
             payload |-> [type |-> type, action |-> action]], clock)
  /\ UNCHANGED <<file, pc, clock, state, returned, parse, trace, lastIndex,
                 component, ui, localStorage>>

UnlockAchievement ==
  /\ Dispatched < MaxEvents
  /\ \E achievementId \in AchievementIds :
        gamification' =
          gamificationReducer(gamification,
            [type |-> "UNLOCK_ACHIEVEMENT", payload |-> achievementId], clock)
  /\ UNCHANGED <<file, pc, clock, state, returned, parse, trace, lastIndex,
                 component, ui, localStorage>>

GamInit == Init /\ file = [c \in Calls |-> SampleCsv]

GamNext == AwardXp \/ UpdateStreak \/ UnlockAchievement

GamSpec == GamInit /\ [][GamNext]_vars

\* C30: after any dispatches of AWARD_XP, UPDATE_STREAK and
\* UNLOCK_ACHIEVEMENT the stored level agrees with the stored experience:
\* level.currentLevel is calculateLevel(totalXP), level.totalXP is totalXP
\* and level.xpToNextLevel is calculateXPToNextLevel(totalXP).
C30_LevelMatchesExperience ==
  LET userProgress == gamification.userProgress
  IN  /\ userProgress.level.currentLevel = calculateLevel(userProgress.totalXP)
      /\ userProgress.level.totalXP = userProgress.totalXP
      /\ userProgress.level.xpToNextLevel
           = calculateXPToNextLevel(userProgress.totalXP)

(***************************************************************************)
(* The imports made through BankStatementImport: the file is selected and  *)
(* handleImport runs around the call of importStatement.                   *)
(***************************************************************************)

\* What isValidFile alerts for a file it refuses.
ValidityAlert(f) ==
  IF f.type \notin {"text/csv", "application/pdf"}
    THEN "Please select a CSV or PDF file."
    ELSE "File size must be less than 10MB."

\* The result of readAsDataURL: the data URL of the file, the base64 text
\* of its bytes under its MIME type.
DataUrl(f) == [mime |-> f.type, encoding |-> "base64", bytes |-> f.content]

\* localStorage.setItem on the pdf_<statementId> items.
SetItem(items, key, value) ==
  {i \in items : i.key # key} \cup {[key |-> key, value |-> value]}

\* The statement handleImport keeps: the returned one under the statementId.
UpdatedStatement(c) == [returned[c][1] EXCEPT !.id = ui[c].statementId]

\* When the second file is selected: as the second call is made, or once
\* the first file has been refused or could not be stored.
Selectable(c) ==
  c = 2 => (CallMade(c) \/ ui[1].at \in {"refused", "storeFailed"})

\* handleFileSelect (handleDrop does the same): the file is selected when
\* isValidFile accepts it.
HandleFileSelect(c) ==
  /\ pc[c] = "idle"
  /\ Selectable(c)
  /\ \/ ui[c].at = "none"
     \/ ui[c].at = "selected" /\ component.selectedFile # <<file[c]>>
  /\ IF isValidFile(file[c])
       THEN /\ component' = [component EXCEPT !.selectedFile = <<file[c]>>]
            /\ ui' = [ui EXCEPT ![c].at = "selected"]
       ELSE /\ ui' = [ui EXCEPT ![c].at = "refused",
                                ![c].alert = ValidityAlert(file[c])]
            /\ UNCHANGED component
  /\ UNCHANGED <<file, pc, clock, state, returned, parse, trace, lastIndex,
                 localStorage, gamification>>

\* handleImport up to its first await that waits: for a file of type
\* application/pdf, readAsDataURL is called; for any other, importStatement
\* is called and, it having returned, the timer of 1000 ms is set.  (The
\* progress simulation between 0 and 100 is left out.)
HandleImport(c) ==
  /\ ui[c].at = "selected"
  /\ component.selectedFile = <<file[c]>>
  /\ pc[c] = "idle"
  /\ clock < MaxClock
  /\ IF file[c].type = PdfMime
       THEN /\ ui' = [ui EXCEPT ![c].at = "storing",
                                ![c].statementId = <<"stmt", clock, c>>,
                                ![c].captured = component.importHistory]
            /\ component' = [component EXCEPT !.uploadProgress = 0]
            /\ UNCHANGED <<file, pc, clock, state, returned, parse, trace,
                           lastIndex>>
       ELSE /\ ImportStatementCall(c)
            /\ ui' = [ui EXCEPT ![c].at = "recording",
                                ![c].statementId = <<"stmt", clock, c>>,
                                ![c].captured = component.importHistory]
            /\ component' = [component EXCEPT !.uploadProgress = 100]
  /\ UNCHANGED <<localStorage, gamification>>

\* reader.onload of handleImport: the data URL is stored under
\* pdf_<statementId>; then importStatement is called and, it having
\* returned, the timer of 1000 ms is set.
DataUrlLoad(c) ==
  /\ ui[c].at = "storing"
  /\ file[c].readable
  /\ localStorage' = [localStorage EXCEPT
                        !.pdfs = SetItem(@, ui[c].statementId, DataUrl(file[c]))]
  /\ ImportStatementCall(c)
  /\ ui' = [ui EXCEPT ![c].at = "recording"]
  /\ component' = [component EXCEPT !.uploadProgress = 100]
  /\ UNCHANGED gamification

\* reader.onerror of handleImport: the promise rejects and the catch alerts;
\* importStatement is not called.
DataUrlError(c) ==
  /\ ui[c].at = "storing"
  /\ ~file[c].readable
  /\ ui' = [ui EXCEPT ![c].at = "storeFailed",
                      ![c].alert = "Import Error: Failed to read PDF file"]
  /\ component' = [component EXCEPT !.uploadProgress = 0]
  /\ UNCHANGED <<file, pc, clock, state, returned, parse, trace, lastIndex,
                 localStorage, gamification>>

\* The callback of the timer of 1000 ms: the selection is cleared and the
\* kept statement is put in front of the importHistory of the closure, in
\* the component and under bankStatementHistory in localStorage.
HistoryTimerFires(c) ==
  /\ ui[c].at = "recording"
  /\ \E newHistory \in {<<UpdatedStatement(c)>> \o ui[c].captured} :
        /\ component' = [selectedFile |-> <<>>, importHistory |-> newHistory,
                         uploadProgress |-> 0]
        /\ localStorage' = [localStorage EXCEPT
                              !.bankStatementHistory = <<newHistory>>]
  /\ ui' = [ui EXCEPT ![c].at = "recorded"]
  /\ UNCHANGED <<file, pc, clock, state, returned, parse, trace, lastIndex,
                 gamification>>

\* The files selected: one for each outcome, and one of a type isValidFile
\* refuses.
UiFiles == Outcomes \cup {[SampleCsv EXCEPT !.type = "application/vnd.ms-excel"]}

UiInit ==
  /\ Init
  /\ file \in {[c \in Calls |-> f] : f \in UiFiles} \cup [Calls -> Overlapping]

UiNext ==
  \/ Tick
  \/ \E c \in Calls :
        \/ HandleFileSelect(c)
        \/ HandleImport(c)
        \/ DataUrlLoad(c)
        \/ DataUrlError(c)
        \/ HistoryTimerFires(c)
        \/ TimerFires(c)
        \/ ReaderLoad(c)
        \/ ReaderError(c)
        \/ SampleSettled(c)
        \/ PdfToTextRejected(c)
        \/ PdfToTextSettled(c)

UiSpec == UiInit /\ [][UiNext]_vars

\* C21: localStorage never holds the content of an imported statement file
\* nor a bank-statement record.
C21_NoStatementDataStored ==
  /\ localStorage.pdfs = {}
  /\ localStorage.bankStatementHistory = <<>>

=============================================================================
